---- MODULE Spec2Model ----
(***************************************************************************)
(* A model of the Trustpilot scraper: ScraperOrchestrator.scrape() as a    *)
(* state machine over its local variables and the collaborators it owns    *)
(* (BrowserController, PageNavigator, ContentExtractor, DataTransformer,   *)
(* CSVExporter, RateLimiter), with the browser, the site and the file      *)
(* system as a nondeterministic environment.                               *)
(*                                                                         *)
(* Strings are sequences of one-character strings.  An Error is a record   *)
(* [src, msg]: src names the throw site, msg is the set of classifier      *)
(* indicator phrases the lower-cased message contains (all that            *)
(* ErrorHandler ever reads of a message).                                  *)
(***************************************************************************)
EXTENDS Integers, Sequences, FiniteSets, TLC

(***************************************************************************)
(* Bounds of the model.                                                    *)
(***************************************************************************)
\* the site has at most this many pages (a next control exists only before the last)
MaxSitePages == 3
\* at most this many review containers on one page
MaxContainers == 2
\* rating strings handed to parseRating by itself have at most this length
MaxRatingLen == 4
\* texts handed to sanitizeText by itself have at most this length
MaxTextLen == 5

(***************************************************************************)
(* Characters and strings.                                                 *)
(***************************************************************************)
LF == "\n"
CR == "\r"
SP == " "

IsWhitespace(c) == c \in {SP, LF, CR, "\t"}

Digits == <<"0", "1", "2", "3", "4", "5", "6", "7", "8", "9">>

IsDigit(c) == \E i \in 1..10 : Digits[i] = c

DigitVal(c) == (CHOOSE i \in 1..10 : Digits[i] = c) - 1

RECURSIVE TrimStart(_)
TrimStart(s) ==
    IF s = <<>> THEN <<>>
    ELSE IF IsWhitespace(Head(s)) THEN TrimStart(Tail(s))
    ELSE s

RECURSIVE TrimEnd(_)
TrimEnd(s) ==
    IF s = <<>> THEN <<>>
    ELSE IF IsWhitespace(s[Len(s)]) THEN TrimEnd(SubSeq(s, 1, Len(s) - 1))
    ELSE s

\* String.prototype.trim
Trim(s) == TrimEnd(TrimStart(s))

\* .replace(/\r\n/g, '\n')
RECURSIVE ReplaceCRLF(_)
ReplaceCRLF(s) ==
    IF s = <<>> THEN <<>>
    ELSE IF Len(s) >= 2 /\ s[1] = CR /\ s[2] = LF
         THEN <<LF>> \o ReplaceCRLF(SubSeq(s, 3, Len(s)))
         ELSE <<Head(s)>> \o ReplaceCRLF(Tail(s))

\* .replace(/\r/g, '\n')
RECURSIVE ReplaceCR(_)
ReplaceCR(s) ==
    IF s = <<>> THEN <<>>
    ELSE <<IF Head(s) = CR THEN LF ELSE Head(s)>> \o ReplaceCR(Tail(s))

\* length of the run of LF characters at the start of s
RECURSIVE LFRun(_)
LFRun(s) ==
    IF s = <<>> \/ Head(s) # LF THEN 0 ELSE 1 + LFRun(Tail(s))

\* .replace(/\n{3,}/g, '\n\n')
RECURSIVE CollapseLF(_)
CollapseLF(s) ==
    IF s = <<>> THEN <<>>
    ELSE LET n == LFRun(s) IN
         IF n >= 3 THEN <<LF, LF>> \o CollapseLF(SubSeq(s, n + 1, Len(s)))
         ELSE IF n >= 1 THEN SubSeq(s, 1, n) \o CollapseLF(SubSeq(s, n + 1, Len(s)))
         ELSE <<Head(s)>> \o CollapseLF(Tail(s))

(***************************************************************************)
(* DataTransformer.                                                        *)
(***************************************************************************)
\* sanitizeText without the collapse of newline runs
sanitizeTextKeepsRuns(text) ==
    IF text = <<>> THEN <<>>
    ELSE ReplaceCR(ReplaceCRLF(Trim(text)))

sanitizeText(text) ==
    IF text = <<>> THEN <<>>
    ELSE CollapseLF(ReplaceCR(ReplaceCRLF(Trim(text))))

RECURSIVE Pow10(_)
Pow10(n) == IF n = 0 THEN 1 ELSE 10 * Pow10(n - 1)

\* the most fraction digits a rating string of the model can have ("d.dd")
FractionDigits == MaxRatingLen - 2

\* ratings are held as multiples of 10^-FractionDigits, so that 4.5 is 450
\* with two fraction digits and no rating of the model is rounded
RatingScale == Pow10(FractionDigits)

\* index of the first digit of s at or after i, 0 if none
RECURSIVE FirstDigit(_, _)
FirstDigit(s, i) ==
    IF i > Len(s) THEN 0
    ELSE IF IsDigit(s[i]) THEN i
    ELSE FirstDigit(s, i + 1)

\* index of the last digit of the digit run that starts at i
RECURSIVE DigitRunEnd(_, _)
DigitRunEnd(s, i) ==
    IF i + 1 <= Len(s) /\ IsDigit(s[i + 1]) THEN DigitRunEnd(s, i + 1) ELSE i

\* value of the decimal digits s[i..j]
RECURSIVE DigitsValue(_, _, _)
DigitsValue(s, i, j) ==
    IF j < i THEN 0 ELSE DigitsValue(s, i, j - 1) * 10 + DigitVal(s[j])

\* parseFloat of the first match of /(\d+(?:\.\d+)?)/, in units of
\* 1/RatingScale (fraction digits beyond FractionDigits do not occur)
FirstNumber(s) ==
    LET i == FirstDigit(s, 1)
        j == DigitRunEnd(s, i)
        hasFrac == j + 2 <= Len(s) /\ s[j + 1] = "." /\ IsDigit(s[j + 2])
        k == IF hasFrac THEN DigitRunEnd(s, j + 2) ELSE j
        k2 == IF k > j + 1 + FractionDigits THEN j + 1 + FractionDigits ELSE k
        fracLen == IF hasFrac THEN k2 - (j + 1) ELSE 0
        frac == IF hasFrac THEN DigitsValue(s, j + 2, k2) ELSE 0
    IN  DigitsValue(s, i, j) * RatingScale + frac * Pow10(FractionDigits - fracLen)

\* the rating rounded to a whole number of stars
parseRatingRounded(ratingString) ==
    IF ratingString = <<>> THEN 0
    ELSE LET trimmed == Trim(ratingString) IN
         IF FirstDigit(trimmed, 1) = 0 THEN 0
         ELSE LET rating == FirstNumber(trimmed)
                  rounded == ((2 * rating + RatingScale) \div (2 * RatingScale)) * RatingScale
              IN  IF rating >= 1 * RatingScale /\ rating <= 5 * RatingScale
                  THEN rounded ELSE 0

parseRating(ratingString) ==
    IF ratingString = <<>> THEN 0
    ELSE LET trimmed == Trim(ratingString) IN
         IF FirstDigit(trimmed, 1) = 0 THEN 0
         ELSE LET rating == FirstNumber(trimmed) IN
              IF rating >= 1 * RatingScale /\ rating <= 5 * RatingScale
              THEN rating ELSE 0

\* trimmed.match(/^\d{4}-\d{2}-\d{2}$/)
IsIsoDate(s) ==
    /\ Len(s) = 10
    /\ \A i \in {1, 2, 3, 4, 6, 7, 9, 10} : IsDigit(s[i])
    /\ s[5] = "-" /\ s[8] = "-"

IsLeapYear(year) == year % 400 = 0 \/ (year % 4 = 0 /\ year % 100 # 0)

DaysInMonth(year, month) ==
    IF month = 2 THEN (IF IsLeapYear(year) THEN 29 ELSE 28)
    ELSE IF month \in {4, 6, 9, 11} THEN 30 ELSE 31

\* date-fns parse(trimmed, 'yyyy-MM-dd', new Date()): the numbers read
parse(s) ==
    [year |-> DigitsValue(s, 1, 4), month |-> DigitsValue(s, 6, 7),
     day |-> DigitsValue(s, 9, 10)]

\* date-fns isValid of a parsed date: parse gives Invalid Date for the year
\* 0, a month outside 1..12 and a day the month does not have
isValid(date) ==
    /\ date.year > 0
    /\ date.month \in 1..12
    /\ date.day >= 1 /\ date.day <= DaysInMonth(date.year, date.month)

\* the decimal digits of n, at least width of them
RECURSIVE addLeadingZeros(_, _)
addLeadingZeros(n, width) ==
    IF width <= 1 /\ n < 10 THEN <<Digits[n + 1]>>
    ELSE Append(addLeadingZeros(n \div 10, width - 1), Digits[(n % 10) + 1])

\* the fields written without leading zeros
formatUnpadded(date) ==
    addLeadingZeros(date.year, 1) \o <<"-">> \o addLeadingZeros(date.month, 1)
        \o <<"-">> \o addLeadingZeros(date.day, 1)

\* date-fns format(date, 'yyyy-MM-dd')
format(date) ==
    addLeadingZeros(date.year, 4) \o <<"-">> \o addLeadingZeros(date.month, 2)
        \o <<"-">> \o addLeadingZeros(date.day, 2)

\* trimmed.match(/^\d{4}-\d{2}-\d{2}T/)
IsIsoDateTime(s) ==
    /\ Len(s) >= 11
    /\ IsIsoDate(SubSeq(s, 1, 10))
    /\ s[11] = "T"

\* what follows HH:mm:ss in a date-time string: nothing (the string names a
\* local time), or Z with or without milliseconds (it names a time in UTC)
LocalTimeSuffixes == {<<>>}

UtcSuffixes == {<<"Z">>, <<".", "0", "0", "0", "Z">>}

\* HH:mm:ss at positions 12 to 19
IsTimeOfDay(s) ==
    /\ Len(s) >= 19
    /\ \A i \in {12, 13, 15, 16, 18, 19} : IsDigit(s[i])
    /\ s[14] = ":" /\ s[17] = ":"
    /\ DigitsValue(s, 12, 13) <= 23
    /\ DigitsValue(s, 15, 16) <= 59
    /\ DigitsValue(s, 18, 19) <= 59

MinutesPerDay == 24 * 60

\* new Date(trimmed) for a string that starts YYYY-MM-DDT: the calendar date
\* and the minute of the day the string names, whether it names them in UTC
\* or in local time, and Invalid Date for a string that is no date-time
newDate(s) ==
    IF /\ IsTimeOfDay(s)
       /\ isValid(parse(s))
       /\ SubSeq(s, 20, Len(s)) \in LocalTimeSuffixes \cup UtcSuffixes
    THEN [valid |-> TRUE, date |-> parse(s),
          minute |-> DigitsValue(s, 12, 13) * 60 + DigitsValue(s, 15, 16),
          utc |-> SubSeq(s, 20, Len(s)) \in UtcSuffixes]
    ELSE [valid |-> FALSE, date |-> parse(s), minute |-> 0, utc |-> FALSE]

\* the calendar day after a date, and the day before it
nextDay(date) ==
    IF date.day < DaysInMonth(date.year, date.month)
    THEN [date EXCEPT !.day = @ + 1]
    ELSE IF date.month < 12
    THEN [date EXCEPT !.month = @ + 1, !.day = 1]
    ELSE [year |-> date.year + 1, month |-> 1, day |-> 1]

previousDay(date) ==
    IF date.day > 1
    THEN [date EXCEPT !.day = @ - 1]
    ELSE IF date.month > 1
    THEN [date EXCEPT !.month = @ - 1, !.day = DaysInMonth(date.year, date.month - 1)]
    ELSE [year |-> date.year - 1, month |-> 12, day |-> 31]

\* the calendar date that format() reads off a Date: the date in the time
\* zone of the process, which is offset minutes ahead of UTC.  A Date made
\* from a local time has the local date the string names; one made from a
\* UTC time has the date of that instant moved by the offset
localDate(instant, offset) ==
    IF ~instant.utc THEN instant.date
    ELSE IF instant.minute + offset >= MinutesPerDay THEN nextDay(instant.date)
    ELSE IF instant.minute + offset < 0 THEN previousDay(instant.date)
    ELSE instant.date

\* normalizeDate on the strings of this model, in a process whose time zone
\* is offset minutes ahead of UTC.  A date-time string goes through
\* new Date and format; a string of the form YYYY-MM-DD is parsed and
\* formatted when it is a date of the calendar; a string that is neither
\* matches no other pattern of the code (each needs a "/", a blank or a
\* word) and falls through to `return trimmed`, as does a string with no
\* digit that is not today or yesterday
normalizeDate(dateString, offset) ==
    IF dateString = <<>> THEN dateString
    ELSE LET trimmed == Trim(dateString) IN
         IF trimmed = <<>> THEN <<>>
         ELSE IF IsIsoDateTime(trimmed) /\ newDate(trimmed).valid
         THEN format(localDate(newDate(trimmed), offset))
         ELSE IF IsIsoDate(trimmed) /\ isValid(parse(trimmed)) THEN format(parse(trimmed))
         ELSE trimmed

\* transform(review); the dates of the containers of this model are no
\* date-times, so that the time zone plays no part in them
transform(review) ==
    [rating |-> parseRating(review.rating),
     text |-> sanitizeText(review.text),
     date |-> normalizeDate(review.date, 0),
     reviewerName |-> sanitizeText(review.reviewerName),
     title |-> IF review.title # <<>> THEN sanitizeText(review.title) ELSE <<>>,
     verified |-> review.verified]

(***************************************************************************)
(* ErrorHandler.  msg is the set of indicator phrases that the lower-cased *)
(* message includes; context is the record handed to handleError.          *)
(***************************************************************************)
captchaIndicators ==
    {"captcha", "recaptcha", "challenge", "cloudflare", "access denied",
     "blocked", "bot detection", "security check"}

isCaptchaError(msg) == \E indicator \in captchaIndicators : indicator \in msg

isCriticalError(msg, context) ==
    \/ "invalid" \in msg /\ "url" \in msg
    \/ "browser" \in msg /\ ("launch" \in msg \/ "initialize" \in msg)
    \/ isCaptchaError(msg)
    \/ "eacces" \in msg \/ "eperm" \in msg \/ "permission denied" \in msg
    \/ "enoent" \in msg /\ context.operation = "export"

isRecoverableError(msg) ==
    \/ "timeout" \in msg \/ "timed out" \in msg
    \/ "500" \in msg \/ "502" \in msg \/ "503" \in msg \/ "504" \in msg
    \/ "econnrefused" \in msg \/ "econnreset" \in msg
    \/ "connection" \in msg /\ "refused" \in msg
    \/ "429" \in msg \/ "rate limit" \in msg
    \/ "network" \in msg \/ "net::" \in msg

\* the recoverable test made before the critical one
classifyErrorRecoverableFirst(error, context) ==
    IF isRecoverableError(error.msg) THEN "recoverable"
    ELSE IF isCriticalError(error.msg, context) THEN "critical"
    ELSE "non-critical"

classifyError(error, context) ==
    IF isCriticalError(error.msg, context) THEN "critical"
    ELSE IF isRecoverableError(error.msg) THEN "recoverable"
    ELSE "non-critical"

handleError(error, context) ==
    LET category == classifyError(error, context) IN
    IF category = "critical" THEN "terminate"
    ELSE IF category = "recoverable" THEN "retry"
    ELSE IF category = "non-critical" THEN "continue"
    ELSE "terminate"

(***************************************************************************)
(* The environment: what the site shows and what can go wrong.             *)
(***************************************************************************)
\* what extractField finds in one review container: each field is the
\* trimmed text of the first selector that yields text, <<>> if none does
Container(rating, text, date, name, verified) ==
    [rating |-> rating, text |-> text, date |-> date, reviewerName |-> name,
     title |-> <<>>, verified |-> verified]

\* the containers a page may show.  The second has another field tuple than
\* the first though the two join to the same key; the third differs from the
\* first only in its line break and rating; the last has no review text.
ContainerPool ==
    { Container(<<"5">>, <<"a", "|", "b">>, <<"d">>, <<"c", LF, "c">>, TRUE),
      Container(<<"4">>, <<"a">>, <<"d">>, <<"b", "|", "c", LF, "c">>, FALSE),
      Container(<<"3">>, <<"a", "|", "b">>, <<"d">>, <<"c", CR, LF, "c">>, FALSE),
      Container(<<"2", ".", "5">>, <<"e">>, <<"d">>, <<"c">>, FALSE),
      Container(<<"1">>, <<>>, <<"d">>, <<"c">>, FALSE) }

RECURSIVE SeqsUpTo(_, _)
SeqsUpTo(S, n) ==
    IF n = 0 THEN {<<>>}
    ELSE LET shorter == SeqsUpTo(S, n - 1) IN
         shorter \cup {Append(q, x) : q \in {p \in shorter : Len(p) = n - 1}, x \in S}

\* the possible contents of one page
Doms == SeqsUpTo(ContainerPool, MaxContainers)

NoError == [src |-> "none", msg |-> {}]

\* new Error('Failed to navigate to target URL')
NavigationError == [src |-> "navigate", msg |-> {"url"}]

\* what chromium.launch / newContext / newPage can throw
BrowserErrors ==
    { [src |-> "browser", msg |-> {"browser", "launch"}],
      [src |-> "browser", msg |-> {"timeout"}],
      [src |-> "browser", msg |-> {"access denied"}] }

\* what can escape extractReviews: a transient fault, an anti-bot page, and
\* a fault with no indicator; structural says whether the cause is the
\* document structure, which no code reads
PageErrors ==
    { [src |-> "page", msg |-> {"timeout"}, structural |-> FALSE],
      [src |-> "page", msg |-> {"captcha"}, structural |-> TRUE],
      [src |-> "page", msg |-> {}, structural |-> TRUE] }

\* what csvWriter.writeRecords can throw
ExportErrors ==
    { [src |-> "export", msg |-> {"eacces", "permission denied"}],
      [src |-> "export", msg |-> {"enoent"}] }

\* the failures clickNextPage reports in its result
ClickErrors == {"Next page button not found", "click failed"}

\* config.maxPages when --max-pages is not given
Infinity == MaxSitePages + 100

\* a file that was never written, and a file holding the rows of records
NoFile == [exists |-> FALSE, rows |-> <<>>]

FileOf(records) == [exists |-> TRUE, rows |-> records]

(***************************************************************************)
(* ContentExtractor, on the containers the page shows.                     *)
(***************************************************************************)
\* extractSingleReview throws iff a required field is not found
\* a record is made only of a container that has a title as well
HasRequiredFieldsAndTitle(c) ==
    c.rating # <<>> /\ c.text # <<>> /\ c.date # <<>> /\ c.reviewerName # <<>>
        /\ c.title # <<>>

HasRequiredFields(c) ==
    c.rating # <<>> /\ c.text # <<>> /\ c.date # <<>> /\ c.reviewerName # <<>>

extractSingleReview(c) ==
    [rating |-> c.rating, text |-> c.text, date |-> c.date,
     reviewerName |-> c.reviewerName, title |-> c.title, verified |-> c.verified]

\* extractLoop with reviews.unshift(review) in place of reviews.push(review)
RECURSIVE extractLoopUnshift(_)
extractLoopUnshift(elements) ==
    IF elements = <<>> THEN <<>>
    ELSE IF HasRequiredFields(Head(elements))
         THEN extractLoopUnshift(Tail(elements)) \o <<extractSingleReview(Head(elements))>>
         ELSE extractLoopUnshift(Tail(elements))

RECURSIVE extractLoop(_)
extractLoop(elements) ==
    IF elements = <<>> THEN <<>>
    ELSE IF HasRequiredFields(Head(elements))
         THEN <<extractSingleReview(Head(elements))>> \o extractLoop(Tail(elements))
         ELSE extractLoop(Tail(elements))

extractReviews(page) ==
    IF Len(page) = 0 THEN <<>> ELSE extractLoop(page)

(***************************************************************************)
(* ContentExtractor against a document.  A page answers each of the        *)
(* container selectors with a list of elements or by throwing; an element  *)
(* answers each selector of a field with no element, with the text read    *)
(* off the element it finds, or by throwing, and has its <p> descendants   *)
(* and its own textContent.                                                *)
(***************************************************************************)
\* the lengths of the selector lists of REVIEW_SELECTORS
REVIEW_SELECTORS ==
    [reviewContainer |-> 6, rating |-> 5, text |-> 9, date |-> 4,
     reviewerName |-> 5, title |-> 5, verified |-> 4]

NoMatch == [kind |-> "none", text |-> <<>>]
Throws == [kind |-> "throws", text |-> <<>>]
Match(text) == [kind |-> "text", text |-> text]

\* the answers to a selector list whose first selectors answer as given and
\* whose other selectors find nothing
Answers(given, count) == given \o [i \in 1..(count - Len(given)) |-> NoMatch]

\* the for loop of extractField: the trimmed text of the first selector that
\* finds an element with text, '' when there is none
RECURSIVE trySelectors(_)
trySelectors(answers) ==
    IF answers = <<>> THEN <<>>
    ELSE LET answer == Head(answers) IN
         IF answer.kind = "text" /\ Trim(answer.text) # <<>>
         THEN Trim(answer.text)
         ELSE trySelectors(Tail(answers))

\* text.length > 20
MinTextLength == 20

RECURSIVE firstSubstantial(_)
firstSubstantial(paragraphs) ==
    IF paragraphs = <<>> THEN <<>>
    ELSE IF Len(Trim(Head(paragraphs))) > MinTextLength
         THEN Trim(Head(paragraphs))
         ELSE firstSubstantial(Tail(paragraphs))

\* allText.split('\n'): the pieces between one line break (or end of the
\* string) and the next
split(s) ==
    LET breaks == {0, Len(s) + 1} \cup {i \in DOMAIN s : s[i] = LF}
        break(k) == CHOOSE i \in breaks : Cardinality({j \in breaks : j < i}) = k - 1
    IN  [k \in 1..(Cardinality(breaks) - 1) |-> SubSeq(s, break(k) + 1, break(k + 1) - 1)]

\* lines.reduce((a, b) => a.length > b.length ? a : b)
RECURSIVE reduceLongest(_, _)
reduceLongest(a, lines) ==
    IF lines = <<>> THEN a
    ELSE reduceLongest(IF Len(a) > Len(Head(lines)) THEN a ELSE Head(lines), Tail(lines))

longestLine(textContent) ==
    LET split0 == split(Trim(textContent))
        trimmedLines == [i \in 1..Len(split0) |-> Trim(split0[i])]
        lines == SelectSeq(trimmedLines, LAMBDA l : Len(l) > MinTextLength)
    IN  IF Len(lines) > 0 THEN reduceLongest(Head(lines), Tail(lines)) ELSE <<>>

RECURSIVE reduceLongestFirst(_, _)
reduceLongestFirst(a, lines) ==
    IF lines = <<>> THEN a
    ELSE reduceLongestFirst(IF Len(a) >= Len(Head(lines)) THEN a ELSE Head(lines),
                            Tail(lines))

\* the fallback returning the longest of the paragraphs over the threshold
textFallbackLongestParagraph(element) ==
    IF element.paragraphs.threw THEN <<>>
    ELSE LET trimmedParagraphs == [i \in 1..Len(element.paragraphs.texts) |->
                                      Trim(element.paragraphs.texts[i])]
             long == SelectSeq(trimmedParagraphs, LAMBDA t : Len(t) > MinTextLength)
         IN  IF Len(long) > 0 THEN reduceLongestFirst(Head(long), Tail(long))
             ELSE longestLine(element.textContent)

\* the fallback of the text field: the first <p> whose trimmed text is longer
\* than 20, else the longest line of the element's text that is; a throw in
\* it is swallowed and ends it
textFallback(element) ==
    IF element.paragraphs.threw THEN <<>>
    ELSE LET paragraph == firstSubstantial(element.paragraphs.texts)
         IN  IF paragraph # <<>> THEN paragraph ELSE longestLine(element.textContent)

\* extractField: the text found, <<>> where the code throws
\* 'Required field ... not found' (required) or returns '' (not required)
extractField(element, fieldName, required) ==
    LET text == trySelectors(element[fieldName])
    IN  IF text # <<>> THEN text
        ELSE IF fieldName = "text" /\ required THEN textFallback(element)
        ELSE <<>>

\* the six extractField calls of extractSingleReview on one element
extractFields(element) ==
    [rating |-> extractField(element, "rating", TRUE),
     text |-> extractField(element, "text", TRUE),
     date |-> extractField(element, "date", TRUE),
     reviewerName |-> extractField(element, "reviewerName", TRUE),
     title |-> extractField(element, "title", FALSE),
     verified |-> extractField(element, "verified", FALSE) # <<>>]

\* the last selector that yields elements wins
RECURSIVE findReviewContainersLast(_, _)
findReviewContainersLast(page, i) ==
    IF i > REVIEW_SELECTORS.reviewContainer THEN [elements |-> <<>>, selector |-> 0]
    ELSE LET later == findReviewContainersLast(page, i + 1) IN
         IF later.selector # 0 THEN later
         ELSE IF ~page[i].threw /\ Len(page[i].elements) > 0
              THEN [elements |-> page[i].elements, selector |-> i]
              ELSE later

\* findReviewContainers from selector i on: the elements returned and the
\* selector that gave them, 0 when the loop ends without any
RECURSIVE findReviewContainers(_, _)
findReviewContainers(page, i) ==
    IF i > REVIEW_SELECTORS.reviewContainer THEN [elements |-> <<>>, selector |-> 0]
    ELSE IF ~page[i].threw /\ Len(page[i].elements) > 0
         THEN [elements |-> page[i].elements, selector |-> i]
         ELSE findReviewContainers(page, i + 1)

(***************************************************************************)
(* ScraperOrchestrator.scrape: the pure parts of one loop iteration.       *)
(***************************************************************************)
MapTransform(rawReviews) == [i \in 1..Len(rawReviews) |-> transform(rawReviews[i])]

\* `${review.text}|${review.reviewerName}|${review.date}`
reviewKey(review) ==
    review.text \o <<"|">> \o review.reviewerName \o <<"|">> \o review.date

\* the filter deleting the key of a duplicate from seenReviews
RECURSIVE filterUniqueForgets(_, _)
filterUniqueForgets(reviews, seen) ==
    IF reviews = <<>> THEN [unique |-> <<>>, seen |-> seen]
    ELSE LET key == reviewKey(Head(reviews)) IN
         IF key \in seen
         THEN filterUniqueForgets(Tail(reviews), seen \ {key})
         ELSE LET rest == filterUniqueForgets(Tail(reviews), seen \cup {key}) IN
              [unique |-> <<Head(reviews)>> \o rest.unique, seen |-> rest.seen]

\* the filter without seenReviews.add(reviewKey) inside the callback: the keys
\* of the page are added only after the pass
RECURSIVE filterUniqueLateAdd(_, _)
filterUniqueLateAdd(reviews, seen) ==
    IF reviews = <<>> THEN [unique |-> <<>>, seen |-> seen]
    ELSE LET key == reviewKey(Head(reviews))
             rest == filterUniqueLateAdd(Tail(reviews), seen)
         IN  IF key \in seen
             THEN rest
             ELSE [unique |-> <<Head(reviews)>> \o rest.unique,
                   seen |-> rest.seen \cup {key}]

\* transformedReviews.filter(...) with its side effect on seenReviews:
\* the kept records and the set after the pass
RECURSIVE filterUnique(_, _)
filterUnique(reviews, seen) ==
    IF reviews = <<>> THEN [unique |-> <<>>, seen |-> seen]
    ELSE LET key == reviewKey(Head(reviews)) IN
         IF key \in seen
         THEN filterUnique(Tail(reviews), seen)
         ELSE LET rest == filterUnique(Tail(reviews), seen \cup {key}) IN
              [unique |-> <<Head(reviews)>> \o rest.unique, seen |-> rest.seen]

\* the records of the page put in front of the accumulator
pushFront(reviews, uniqueReviews) == uniqueReviews \o reviews

\* allReviews.push(...uniqueReviews)
push(reviews, uniqueReviews) == reviews \o uniqueReviews

\* a checkpoint is written when pagesProcessed % 50 === 0
CheckpointInterval == 50

\* the checkpoint test made on the page count before the page is counted
checkpointDueBeforeCount(processed) == (processed - 1) % CheckpointInterval = 0

\* if (pagesProcessed % 50 === 0), evaluated after pagesProcessed++
checkpointDue(processed) == processed % CheckpointInterval = 0

\* `${pagesProcessed}`: the decimal digits of a non-negative integer
RECURSIVE DecimalString(_)
DecimalString(n) ==
    IF n < 10 THEN <<Digits[n + 1]>>
    ELSE DecimalString(n \div 10) \o <<Digits[(n % 10) + 1]>>

\* s.startsWith(pattern) at position i (1-based)
MatchesAt(s, pattern, i) ==
    /\ i + Len(pattern) - 1 <= Len(s)
    /\ \A k \in 1..Len(pattern) : s[i + k - 1] = pattern[k]

\* s.includes(pattern)
Includes(s, pattern) == \E i \in 1..Len(s) : MatchesAt(s, pattern, i)

\* String.prototype.replace with a string pattern: the first occurrence only,
\* and the string itself when the pattern does not occur
replace(s, pattern, replacement) ==
    IF ~Includes(s, pattern) THEN s
    ELSE LET i == CHOOSE k \in 1..Len(s) :
                      /\ MatchesAt(s, pattern, k)
                      /\ \A j \in 1..(k - 1) : ~MatchesAt(s, pattern, j)
         IN  SubSeq(s, 1, i - 1) \o replacement \o SubSeq(s, i + Len(pattern), Len(s))

CsvExtension == <<".", "c", "s", "v">>

CheckpointInfix == <<"_", "c", "h", "e", "c", "k", "p", "o", "i", "n", "t", "_", "p", "a", "g", "e">>

\* the checkpoint named by appending the suffix to the whole filename
checkpointFilenameAppended(outputFilename, processed) ==
    outputFilename \o CheckpointInfix \o DecimalString(processed) \o CsvExtension

\* this.config.outputFilename.replace('.csv', `_checkpoint_page${pagesProcessed}.csv`)
checkpointFilename(outputFilename, processed) ==
    replace(outputFilename, CsvExtension,
            CheckpointInfix \o DecimalString(processed) \o CsvExtension)

\* ScraperConfig: this.outputFilename = options.output || 'reviews.csv'
DefaultOutputFilename == <<"r", "e", "v", "i", "e", "w", "s", ".", "c", "s", "v">>

\* ScraperConfig.DEFAULT_DELAY_MS
DefaultDelayMs == 2000

\* RateLimiter.delay sleeping the whole delay whatever has elapsed
remainingDelayFull(now, lastRequestTime, milliseconds) == milliseconds

\* RateLimiter.delay: the sleep is milliseconds - timeSinceLastRequest when
\* less than milliseconds has passed since lastRequestTime, and none otherwise
remainingDelay(now, lastRequestTime, milliseconds) ==
    IF now - lastRequestTime < milliseconds
    THEN milliseconds - (now - lastRequestTime)
    ELSE 0

\* Date.now() when the process starts: milliseconds since 1970, far more
\* than any configured delay
Epoch == 100000

(***************************************************************************)
(* State of one scrape() call.                                             *)
(***************************************************************************)
VARIABLES
    pc,             \* position in scrape()
    maxPages,       \* config.maxPages
    headless,       \* config.headless
    browser,        \* BrowserController.browser is not null
    context,        \* BrowserController.context is not null
    navigationSuccess, \* const navigationSuccess, "unset" before navigateToURL returns
    dom,            \* the review containers of the page the browser shows
    currentPage,    \* let currentPage
    hasNextPage,    \* let hasNextPage
    pagesProcessed, \* let pagesProcessed
    allReviews,     \* const allReviews (the accumulator)
    seenReviews,    \* const seenReviews (the identity set)
    errors,         \* const errors
    primaryFile,    \* the file named config.outputFilename
    checkpoints,    \* the checkpoint files written, by page count
    outcome,        \* how the promise of scrape() settled
    result,         \* the ScrapingResult it resolved with
    raised,         \* the error it rejected with
    caught,         \* the error bound by the outer catch
    pageError,      \* the last error bound by the page catch, with the accumulator size then
    lastClick,      \* the NavigationResult of the last clickNextPage
    calls,          \* how often each collaborator was invoked
    site,           \* the site scraped: how many pages it has, what a page may show
    outputFilename, \* config.outputFilename
    delayMs,        \* config.delayMs
    now,            \* Date.now()
    lastRequestTime,\* RateLimiter.lastRequestTime
    requestedAt     \* when the last page request (goto or click) was made

scrapeVars == <<pc, maxPages, headless, browser, context, navigationSuccess, dom, currentPage, hasNextPage,
          pagesProcessed, allReviews, seenReviews, errors, primaryFile,
          checkpoints, outcome, result, raised, caught, pageError, lastClick,
          calls, site, outputFilename, delayMs, now, lastRequestTime, requestedAt>>

(***************************************************************************)
(* State of the parts of the program checked on their own: the checkpoint  *)
(* name, RateLimiter.retryWithBackoff, a caller of RateLimiter.delay,      *)
(* ErrorHandler.handleError and main().  They are idle during a scrape()   *)
(* checked by itself.                                                      *)
(***************************************************************************)
VARIABLES
    checkpointPage, \* the page count a checkpoint name is computed for
    checkpointName, \* const checkpointFilename
    retry,          \* one call of retryWithBackoff
    caller,         \* one caller of RateLimiter.delay
    classified,     \* one call of ErrorHandler.handleError
    main            \* the process running main()

(***************************************************************************)
(* One call of a component checked by itself: ContentExtractor,            *)
(* PageNavigator, DataTransformer and a BrowserController under a          *)
(* sequence of calls.                                                      *)
(***************************************************************************)
VARIABLES
    extraction,     \* one call of ContentExtractor.extractReviews
    navigation,     \* one call of a PageNavigator method
    transformed,    \* one call of a DataTransformer method
    controller,     \* a BrowserController and the browsers launched for it
    callers         \* callers of one RateLimiter whose delay() calls overlap

unitVars == <<extraction, navigation, transformed, controller, callers>>

auxVars == <<checkpointPage, checkpointName, retry, caller, classified, main, unitVars>>

vars == <<scrapeVars, auxVars>>

Idle == [pc |-> "idle"]

UnitIdle ==
    /\ extraction = Idle
    /\ navigation = Idle
    /\ transformed = Idle
    /\ controller = Idle
    /\ callers = Idle

NamingIdle == checkpointPage = 0 /\ checkpointName = <<>>

AuxIdle ==
    /\ NamingIdle
    /\ UnitIdle
    /\ retry = Idle
    /\ caller = Idle
    /\ classified = Idle
    /\ main = Idle

NoResult == [totalReviews |-> 0, pagesProcessed |-> 0, errors |-> <<>>, set |-> FALSE]

ScrapingResult(reviews, pages, errs) ==
    [totalReviews |-> Len(reviews), pagesProcessed |-> pages, errors |-> errs,
     set |-> TRUE]

NoPageError == [error |-> NoError, records |-> 0, thrown |-> FALSE]

NoClick == [success |-> TRUE, hasNextPage |-> FALSE, error |-> "", made |-> FALSE]

\* the state scrape() starts in: a new RateLimiter, nothing fetched
ScrapeStart ==
    /\ pc = "init"
    /\ browser = FALSE
    /\ context = FALSE
    /\ navigationSuccess = "unset"
    /\ dom = <<>>
    /\ currentPage = 1
    /\ hasNextPage = TRUE
    /\ pagesProcessed = 0
    /\ allReviews = <<>>
    /\ seenReviews = {}
    /\ errors = <<>>
    /\ primaryFile = NoFile
    /\ checkpoints = {}
    /\ outcome = "pending"
    /\ result = NoResult
    /\ raised = NoError
    /\ caught = NoError
    /\ pageError = NoPageError
    /\ lastClick = NoClick
    /\ calls = [settle |-> 0, extract |-> 0, detect |-> 0, delay |-> 0,
                click |-> 0, export |-> 0, partial |-> 0, iterations |-> 0,
                checkpoint |-> 0, checkpointFailed |-> 0]
    /\ now = Epoch
    /\ lastRequestTime = 0
    /\ requestedAt = 0

Init ==
    /\ ScrapeStart
    /\ maxPages \in (1..MaxSitePages) \cup {Infinity}
    /\ headless = TRUE
    /\ site = [pages |-> MaxSitePages, doms |-> Doms]
    /\ outputFilename = DefaultOutputFilename
    /\ delayMs = DefaultDelayMs
    /\ AuxIdle

Bump(name) == [calls EXCEPT ![name] = @ + 1]

\* throw e inside the outer try: control goes to the outer catch
ThrowCritical(e) ==
    /\ caught' = e
    /\ pc' = "catch"

\* browserController.initialize() and createPage(): chromium.launch, then
\* browser.newContext, then context.newPage, each of which may throw
Initialize ==
    /\ pc = "init"
    /\ \/ \E e \in BrowserErrors :
            /\ ThrowCritical(e)
            /\ \E stage \in {"launch", "newContext", "newPage"} :
                /\ browser' = (stage # "launch")
                /\ context' = (stage = "newPage")
       \/ /\ browser' = TRUE
          /\ context' = TRUE
          /\ pc' = "navigate"
          /\ UNCHANGED caught
    /\ UNCHANGED <<auxVars, maxPages, headless, site, outputFilename, delayMs, now, lastRequestTime,
                   requestedAt, navigationSuccess, dom, currentPage, hasNextPage,
                   pagesProcessed, allReviews, seenReviews, errors, primaryFile,
                   checkpoints, outcome, result, raised, pageError, lastClick,
                   calls>>

\* the navigation result is not looked at
navigationNeverAborts(success) == FALSE

\* if (!navigationSuccess) throw ...
navigationAborts(success) == ~success

\* the pause for manual login made in headless runs too
pausesForLoginAlways(headlessRun) == TRUE

\* if (!this.config.headless) ... await this.waitForUserInput()
pausesForLogin(headlessRun) == ~headlessRun

\* navigator.navigateToURL(targetURL); false throws 'Failed to navigate to
\* target URL'; true goes on, with currentPage = 1 and hasNextPage = true,
\* to the loop in a headless run and to the pause for manual login otherwise
NavigateToURL ==
    /\ pc = "navigate"
    /\ \E success \in BOOLEAN :
        /\ navigationSuccess' = IF success THEN "true" ELSE "false"
        /\ IF navigationAborts(success)
           THEN /\ ThrowCritical(NavigationError)
                /\ UNCHANGED dom
           ELSE /\ dom' \in site.doms
                /\ pc' = IF pausesForLogin(headless) THEN "pause" ELSE "loop"
                /\ UNCHANGED caught
    /\ currentPage' = 1
    /\ hasNextPage' = TRUE
    /\ seenReviews' = {}
    /\ requestedAt' = now
    /\ UNCHANGED <<auxVars, maxPages, headless, site, outputFilename, delayMs, now, lastRequestTime,
                   browser, context, pagesProcessed, allReviews,
                   errors, primaryFile, checkpoints, outcome, result, raised,
                   pageError, lastClick, calls>>

\* await this.waitForUserInput(): the promise resolves when stdin emits
\* 'data', which takes a user pressing ENTER; the page the user leaves the
\* browser on is the one the loop starts with
WaitForUserInput ==
    /\ pc = "pause"
    /\ pc' = "loop"
    /\ dom' \in site.doms
    /\ UNCHANGED <<auxVars, maxPages, headless, site, outputFilename, delayMs, now,
                   lastRequestTime, requestedAt, navigationSuccess, browser, context,
                   currentPage, hasNextPage, pagesProcessed, allReviews, seenReviews,
                   errors, primaryFile, checkpoints, outcome, result, raised, caught,
                   pageError, lastClick, calls>>

\* while (hasNextPage && currentPage <= this.config.maxPages)
LoopHead ==
    /\ pc = "loop"
    /\ IF hasNextPage /\ currentPage <= maxPages
       THEN /\ pc' = "page"
            /\ calls' = Bump("iterations")
       ELSE /\ pc' = "export"
            /\ UNCHANGED calls
    /\ UNCHANGED <<auxVars, maxPages, headless, site, outputFilename, delayMs, now, lastRequestTime,
                   requestedAt, navigationSuccess, browser, context, dom, currentPage, hasNextPage,
                   pagesProcessed, allReviews, seenReviews, errors, primaryFile,
                   checkpoints, outcome, result, raised, caught, pageError,
                   lastClick>>

\* the page catch without hasNextPage = false
PageCatchKeepsGoing(e) ==
    /\ errors' = Append(errors, [kind |-> "page", page |-> currentPage, msg |-> e.msg])
    /\ pageError' = [error |-> e, records |-> Len(allReviews), thrown |-> TRUE]
    /\ pc' = "loop"
    /\ calls' = [calls EXCEPT !.settle = @ + 1, !.extract = @ + 1]
    /\ UNCHANGED <<hasNextPage, pagesProcessed, allReviews, seenReviews, checkpoints,
                   primaryFile>>

\* the page catch: push the message, hasNextPage = false
PageCatch(e) ==
    /\ errors' = Append(errors, [kind |-> "page", page |-> currentPage, msg |-> e.msg])
    /\ hasNextPage' = FALSE
    /\ pageError' = [error |-> e, records |-> Len(allReviews), thrown |-> TRUE]
    /\ pc' = "loop"
    /\ calls' = [calls EXCEPT !.settle = @ + 1, !.extract = @ + 1]
    /\ UNCHANGED <<pagesProcessed, allReviews, seenReviews, checkpoints, primaryFile>>

\* the page cap compared with > in place of >=
reachedMaxPagesStrict(page, cap) == page > cap

\* if (currentPage >= this.config.maxPages) break
reachedMaxPages(page, cap) == page >= cap

\* the loop left also when the page yielded no raw review
afterPageStopOnEmpty(rawReviews, page, cap) ==
    IF reachedMaxPages(page, cap) \/ rawReviews = <<>> THEN "export" ELSE "detect"

\* where control goes once the page is counted: out of the loop at the page
\* cap, else on to detectNextPageButton; what was extracted plays no part
afterPage(rawReviews, page, cap) ==
    IF reachedMaxPages(page, cap) THEN "export" ELSE "detect"

\* the body of the page try up to the page cap: settle, extract, transform,
\* drop duplicates, push, count the page, export a checkpoint when one is
\* due (a throwing checkpoint export is caught and logged), check the cap
PageBody ==
    LET rawReviews == extractReviews(dom)
        transformedReviews == MapTransform(rawReviews)
        filtered == filterUnique(transformedReviews, seenReviews)
        processed == pagesProcessed + 1
        accumulated == push(allReviews, filtered.unique)
        name == checkpointFilename(outputFilename, processed)
        settled == [calls EXCEPT !.settle = @ + 1, !.extract = @ + 1]
    IN  /\ seenReviews' = filtered.seen
        /\ allReviews' = accumulated
        /\ pagesProcessed' = processed
        /\ IF checkpointDue(processed)
           THEN \/ /\ calls' = [settled EXCEPT !.checkpoint = @ + 1]
                   /\ IF name = outputFilename
                      THEN /\ primaryFile' = FileOf(accumulated)
                           /\ UNCHANGED checkpoints
                      ELSE /\ checkpoints' = checkpoints \cup
                                  {[name |-> name, page |-> processed,
                                    rows |-> accumulated]}
                           /\ UNCHANGED primaryFile
                \/ /\ calls' = [settled EXCEPT !.checkpoint = @ + 1,
                                                !.checkpointFailed = @ + 1]
                   /\ UNCHANGED <<checkpoints, primaryFile>>
           ELSE /\ calls' = settled
                /\ UNCHANGED <<checkpoints, primaryFile>>
        /\ pc' = afterPage(rawReviews, currentPage, maxPages)
        /\ UNCHANGED <<errors, hasNextPage, pageError>>

ProcessPage ==
    /\ pc = "page"
    /\ \/ \E e \in PageErrors : PageCatch(e)
       \/ PageBody
    /\ UNCHANGED <<auxVars, maxPages, headless, site, outputFilename, delayMs, now, lastRequestTime,
                   requestedAt, navigationSuccess, browser, context, dom, currentPage,
                   outcome, result, raised, caught, lastClick>>

\* hasNextPage = await navigator.detectNextPageButton()
DetectNextPage ==
    /\ pc = "detect"
    /\ \E found \in BOOLEAN :
        /\ found => currentPage < site.pages
        /\ hasNextPage' = found
        /\ pc' = IF found THEN "delay" ELSE "loop"
    /\ calls' = Bump("detect")
    /\ UNCHANGED <<auxVars, maxPages, headless, site, outputFilename, delayMs, now, lastRequestTime,
                   requestedAt, navigationSuccess, browser, context, dom, currentPage, pagesProcessed,
                   allReviews, seenReviews, errors, primaryFile, checkpoints,
                   outcome, result, raised, caught, pageError, lastClick>>

\* lastRequestTime taken from the Date.now() read before the sleep
stampOfDelayBeforeSleep(start, end) == start

\* this.lastRequestTime = Date.now(), read again once the sleep is over
stampOfDelay(start, end) == end

\* await this.rateLimiter.delay(this.config.delayMs): sleep what is left
\* of delayMs since lastRequestTime, then set lastRequestTime
Delay ==
    /\ pc = "delay"
    /\ calls' = Bump("delay")
    /\ now' = now + remainingDelay(now, lastRequestTime, delayMs)
    /\ lastRequestTime' = stampOfDelay(now, now')
    /\ pc' = "click"
    /\ UNCHANGED <<auxVars, maxPages, headless, site, outputFilename, delayMs, requestedAt,
                   navigationSuccess, browser, context, dom, currentPage, hasNextPage,
                   pagesProcessed, allReviews, seenReviews, errors, primaryFile,
                   checkpoints, outcome, result, raised, caught, pageError,
                   lastClick>>

\* the success branch without currentPage++
pageAfterClickStays(page, success) == page

\* currentPage++ moved behind the if/else
pageAfterClickAlways(page, success) == page + 1

\* currentPage++ is in the success branch only
pageAfterClick(page, success) == IF success THEN page + 1 ELSE page

\* navigator.clickNextPage() and the branch on navigationResult.success
ClickNextPage ==
    /\ pc = "click"
    /\ calls' = Bump("click")
    /\ \/ \E err \in ClickErrors :
            /\ lastClick' = [success |-> FALSE, hasNextPage |-> FALSE,
                             error |-> err, made |-> TRUE]
            /\ errors' = Append(errors, [kind |-> "pagination", page |-> currentPage,
                                         msg |-> {}])
            /\ hasNextPage' = FALSE
            /\ currentPage' = pageAfterClick(currentPage, FALSE)
            /\ UNCHANGED <<dom, requestedAt>>
       \/ \E more \in BOOLEAN, shown \in site.doms :
            /\ more => currentPage + 1 < site.pages
            /\ lastClick' = [success |-> TRUE, hasNextPage |-> more,
                             error |-> "", made |-> TRUE]
            /\ dom' = shown
            /\ hasNextPage' = more
            /\ currentPage' = pageAfterClick(currentPage, TRUE)
            /\ requestedAt' = now
            /\ UNCHANGED errors
    /\ pc' = "loop"
    /\ UNCHANGED <<auxVars, maxPages, headless, site, outputFilename, delayMs, now, lastRequestTime,
                   navigationSuccess, browser, context, pagesProcessed, allReviews,
                   seenReviews, primaryFile, checkpoints, outcome, result,
                   raised, caught, pageError>>

\* the export after the loop, the summary and the return
FinalExport ==
    /\ pc = "export"
    /\ calls' = Bump("export")
    /\ \/ /\ primaryFile' = FileOf(allReviews)
          /\ result' = ScrapingResult(allReviews, pagesProcessed, errors)
          /\ outcome' = "resolved"
          /\ pc' = "finally"
          /\ UNCHANGED caught
       \/ \E e \in ExportErrors :
            /\ ThrowCritical(e)
            /\ UNCHANGED <<primaryFile, result, outcome>>
    /\ UNCHANGED <<auxVars, maxPages, headless, site, outputFilename, delayMs, now, lastRequestTime,
                   requestedAt, navigationSuccess, browser, context, dom, currentPage, hasNextPage,
                   pagesProcessed, allReviews, seenReviews, errors, checkpoints,
                   raised, pageError, lastClick>>

\* the outer catch exporting whatever has accumulated, zero records too
hasPartialDataAlways(reviews) == TRUE

\* if (allReviews.length > 0): the outer catch exports only then
hasPartialData(reviews) == Len(reviews) > 0

\* the outer catch reaching `throw error` after a successful export too
catchOutcomeAlwaysThrows(exported) == "rejected"

\* the outer catch returns the result from inside its try when the export of
\* the partial data succeeded, and reaches `throw error` when it failed
catchOutcome(exported) == IF exported THEN "resolved" ELSE "rejected"

\* the outer catch: push the message, export when allReviews.length > 0 and
\* return the result if that export succeeds, otherwise throw error
CatchCritical ==
    /\ pc = "catch"
    /\ LET errs == Append(errors, [kind |-> "critical", page |-> currentPage,
                                   msg |-> caught.msg])
       IN  IF hasPartialData(allReviews)
           THEN /\ calls' = Bump("partial")
                /\ \/ /\ primaryFile' = FileOf(allReviews)
                      /\ errors' = errs
                      /\ outcome' = catchOutcome(TRUE)
                      /\ IF catchOutcome(TRUE) = "resolved"
                         THEN /\ result' = ScrapingResult(allReviews, pagesProcessed, errs)
                              /\ UNCHANGED raised
                         ELSE /\ raised' = caught
                              /\ UNCHANGED result
                   \/ \E e \in ExportErrors :
                        /\ errors' = Append(errs, [kind |-> "export",
                                                   page |-> currentPage, msg |-> e.msg])
                        /\ outcome' = catchOutcome(FALSE)
                        /\ raised' = caught
                        /\ UNCHANGED <<primaryFile, result>>
           ELSE /\ errors' = errs
                /\ outcome' = "rejected"
                /\ raised' = caught
                /\ UNCHANGED <<primaryFile, result, calls>>
    /\ pc' = "finally"
    /\ UNCHANGED <<auxVars, maxPages, headless, site, outputFilename, delayMs, now, lastRequestTime,
                   requestedAt, navigationSuccess, browser, context, dom, currentPage, hasNextPage,
                   pagesProcessed, allReviews, seenReviews, checkpoints, caught,
                   pageError, lastClick>>

\* BrowserController.isInitialized
isInitialized == browser /\ context

\* the finally block: close the browser if isInitialized(); close() itself
\* is taken to succeed
Finally ==
    /\ pc = "finally"
    /\ IF isInitialized
       THEN /\ context' = FALSE
            /\ browser' = FALSE
       ELSE UNCHANGED <<browser, context>>
    /\ pc' = "done"
    /\ UNCHANGED <<auxVars, maxPages, headless, site, outputFilename, delayMs, now, lastRequestTime,
                   requestedAt, navigationSuccess, dom, currentPage, hasNextPage,
                   pagesProcessed, allReviews, seenReviews, errors, primaryFile,
                   checkpoints, outcome, result, raised, caught, pageError,
                   lastClick, calls>>

Next ==
    \/ Initialize
    \/ NavigateToURL
    \/ LoopHead
    \/ ProcessPage
    \/ DetectNextPage
    \/ Delay
    \/ ClickNextPage
    \/ FinalExport
    \/ CatchCritical
    \/ Finally

Spec == Init /\ [][Next]_vars

(***************************************************************************)
(* A long run of scrape(): a site of many pages that each show nothing or  *)
(* one and the same review, so that page counts of 50 and 100 are reached. *)
(***************************************************************************)
LongSitePages == 101

LongDoms == {d \in Doms : d = <<>> \/ (Len(d) = 1 /\ d[1].text = <<"e">>)}

\* an output filename without the .csv extension, which cli.ts accepts
BareOutputFilename == <<"o", "u", "t">>

InitLong ==
    /\ ScrapeStart
    /\ maxPages \in {CheckpointInterval, 2 * CheckpointInterval, Infinity}
    /\ headless = TRUE
    /\ site = [pages |-> LongSitePages, doms |-> LongDoms]
    /\ outputFilename \in {DefaultOutputFilename, BareOutputFilename}
    /\ delayMs = DefaultDelayMs
    /\ AuxIdle

SpecLong == InitLong /\ [][Next]_vars

(***************************************************************************)
(* scrape() headless or headed, with progress.  Every step of Next ends an *)
(* await that a timeout bounds or an operation that completes by itself,   *)
(* so a step of Next that can be taken is taken in the end; input on stdin *)
(* comes when a user gives it, or never.                                   *)
(***************************************************************************)
InitHeaded ==
    /\ ScrapeStart
    /\ maxPages \in (1..MaxSitePages) \cup {Infinity}
    /\ headless \in BOOLEAN
    /\ site = [pages |-> MaxSitePages, doms |-> LongDoms]
    /\ outputFilename = DefaultOutputFilename
    /\ delayMs = DefaultDelayMs
    /\ AuxIdle

NextHeaded ==
    \/ Next
    \/ WaitForUserInput

SpecHeaded == InitHeaded /\ [][NextHeaded]_vars /\ WF_vars(Next)

(***************************************************************************)
(* A long run of scrape() over pages that each show nothing or one of two  *)
(* different reviews, so that the checkpoints at 50 and at 100 pages and   *)
(* the final export may each hold other records.                           *)
(***************************************************************************)
CheckpointedDoms ==
    {d \in Doms : d = <<>> \/ (Len(d) = 1 /\ d[1].text \in {<<"a">>, <<"e">>})}

InitCheckpointed ==
    /\ ScrapeStart
    /\ maxPages = 2 * CheckpointInterval
    /\ headless = TRUE
    /\ site = [pages |-> LongSitePages, doms |-> CheckpointedDoms]
    /\ outputFilename \in {DefaultOutputFilename, BareOutputFilename}
    /\ delayMs = DefaultDelayMs
    /\ AuxIdle

SpecCheckpointed == InitCheckpointed /\ [][Next]_vars

(***************************************************************************)
(* The checkpoint name, for every output filename the command line lets    *)
(* through.                                                                *)
(***************************************************************************)
MaxNameLen == 5

FilenameChars == {"a", ".", "c", "s", "v", "/"}

\* cli.ts validateOptions, the output filename: not empty once trimmed, and
\* without "..", "/" and "\\"
outputAccepted(output) ==
    /\ Trim(output) # <<>>
    /\ ~Includes(output, <<".", ".">>)
    /\ ~Includes(output, <<"/">>)
    /\ ~Includes(output, <<"\\">>)

\* the values of --output that reach ScraperConfig
AcceptedFilenames ==
    {f \in SeqsUpTo(FilenameChars, MaxNameLen) : outputAccepted(f)}

\* the page counts at which a checkpoint is due
CheckpointPages == {CheckpointInterval, 2 * CheckpointInterval}

\* a scrape() that is not running
ScrapeIdle ==
    /\ ScrapeStart
    /\ maxPages = Infinity
    /\ headless = TRUE
    /\ site = [pages |-> 0, doms |-> {}]
    /\ delayMs = DefaultDelayMs

InitNaming ==
    /\ ScrapeIdle
    /\ outputFilename \in AcceptedFilenames
    /\ NamingIdle
    /\ UnitIdle
    /\ retry = Idle
    /\ caller = Idle
    /\ classified = Idle
    /\ main = Idle

\* const checkpointFilename = this.config.outputFilename.replace(...)
NameCheckpoint ==
    /\ \E n \in CheckpointPages :
        /\ checkpointPage' = n
        /\ checkpointName' = checkpointFilename(outputFilename, n)
    /\ UNCHANGED <<scrapeVars, retry, caller, classified, main, unitVars>>

NextNaming == NameCheckpoint

SpecNaming == InitNaming /\ [][NextNaming]_vars

(***************************************************************************)
(* RateLimiter.retryWithBackoff.  A value thrown by the operation is a     *)
(* record of what the code reads from it: whether it is truthy, the status *)
(* of its response, the retry-after header, whether its message includes   *)
(* '429', and its own status.                                              *)
(***************************************************************************)
MaxRetries == 3

DefaultMaxRetries == 3

DefaultBaseDelay == 1000

DefaultMaxDelay == 8000

\* the maxDelay of 'should cap exponential backoff at maxDelay'
LowMaxDelay == 3000

\* retryWithBackoff's default for config
DefaultRetryConfig ==
    [maxRetries |-> DefaultMaxRetries, baseDelay |-> DefaultBaseDelay,
     maxDelay |-> DefaultMaxDelay]

RetryConfigs ==
    {[maxRetries |-> n, baseDelay |-> DefaultBaseDelay, maxDelay |-> d] :
        n \in 0..MaxRetries, d \in {LowMaxDelay, DefaultMaxDelay}}

Thrown(message, truthy, responseStatus, retryAfter, message429, status) ==
    [message |-> message, truthy |-> truthy, responseStatus |-> responseStatus,
     retryAfter |-> retryAfter, message429 |-> message429, status |-> status]

\* throw undefined, or a promise rejected with no reason
Undefined == Thrown("undefined", FALSE, 0, <<>>, FALSE, 0)

\* new Error('Timeout 30000ms exceeded')
TimeoutError == Thrown("timeout", TRUE, 0, <<>>, FALSE, 0)

\* a 429 response with retry-after: '5'
TooManyRequests == Thrown("rate limited", TRUE, 429, <<"5">>, FALSE, 0)

\* a 429 response whose retry-after is an HTTP date, and whose message
\* names the status code
TooManyRequestsDate ==
    Thrown("status code 429", TRUE, 429, <<"W", "e", "d">>, TRUE, 0)

\* new Error('429 Too Many Requests') with no response attached
Message429 == Thrown("429", TRUE, 0, <<>>, TRUE, 0)

RetryErrors == {Undefined, TimeoutError, TooManyRequests, TooManyRequestsDate, Message429}

\* new Error('Operation failed after retries')
FallbackError == Thrown("Operation failed after retries", TRUE, 0, <<>>, FALSE, 0)

NotANumber == [nan |-> TRUE, value |-> 0]

\* parseInt(s, 10): leading white space, an optional sign, then the longest
\* run of digits; NaN when there is no digit there
parseInt(s) ==
    LET t == TrimStart(s)
        signed == t # <<>> /\ t[1] \in {"-", "+"}
        u == IF signed THEN Tail(t) ELSE t
    IN  IF u = <<>> \/ ~IsDigit(u[1]) THEN NotANumber
        ELSE LET magnitude == DigitsValue(u, 1, DigitRunEnd(u, 1))
             IN  [nan |-> FALSE,
                  value |-> IF signed /\ t[1] = "-" THEN 0 - magnitude ELSE magnitude]

DefaultRetryAfter == 60

Null == [null |-> TRUE, seconds |-> 0]

Seconds(n) == [null |-> FALSE, seconds |-> n]

\* extractRetryAfter: the parsed retry-after header of a 429 response, else
\* 60 when the message includes '429' or the status is 429, else null
extractRetryAfter(error) ==
    IF /\ error.responseStatus = 429
       /\ error.retryAfter # <<>>
       /\ ~parseInt(error.retryAfter).nan
    THEN Seconds(parseInt(error.retryAfter).value)
    ELSE IF error.message429 \/ error.status = 429
    THEN Seconds(DefaultRetryAfter)
    ELSE Null

RECURSIVE Pow2(_)
Pow2(n) == IF n = 0 THEN 1 ELSE 2 * Pow2(n - 1)

Min(a, b) == IF a <= b THEN a ELSE b

\* the exponential delay without the cap
exponentialDelayUncapped(config, attempt) == config.baseDelay * Pow2(attempt)

\* Math.min(config.baseDelay * Math.pow(2, attempt), config.maxDelay)
exponentialDelay(config, attempt) ==
    Min(config.baseDelay * Pow2(attempt), config.maxDelay)

\* giving up one attempt early
exhaustedEarly(attempt, maxRetries) == attempt + 1 >= maxRetries

\* if (attempt === config.maxRetries) break
exhausted(attempt, maxRetries) == attempt = maxRetries

\* always the fallback error
rethrownWrapped(lastError) == FallbackError

\* throw lastError || new Error('Operation failed after retries')
rethrown(lastError) == IF lastError.truthy THEN lastError ELSE FallbackError

\* the sleep between a failed attempt and the next one
backoffSleep(error, attempt, config) ==
    LET retryAfter == extractRetryAfter(error) IN
    IF ~retryAfter.null
    THEN [ms |-> retryAfter.seconds * 1000, hinted |-> TRUE, attempt |-> attempt]
    ELSE [ms |-> exponentialDelay(config, attempt), hinted |-> FALSE,
          attempt |-> attempt]

InitRetry ==
    /\ ScrapeIdle
    /\ outputFilename = DefaultOutputFilename
    /\ NamingIdle
    /\ UnitIdle
    /\ retry \in {[pc |-> "call", config |-> c, attempt |-> 0, invocations |-> 0,
                    lastError |-> Undefined, thrown |-> <<>>, sleeps |-> <<>>,
                    outcome |-> "pending", value |-> Undefined] : c \in RetryConfigs}
    /\ caller = Idle
    /\ classified = Idle
    /\ main = Idle

\* one turn of the for loop: invoke the operation; return its result, or
\* catch what it threw, and then either leave the loop and throw, or sleep
\* and go round again with attempt + 1
RetryAttempt ==
    /\ retry.pc = "call"
    /\ retry.attempt <= retry.config.maxRetries
    /\ \/ retry' = [retry EXCEPT !.invocations = @ + 1, !.outcome = "resolved",
                                 !.pc = "done"]
       \/ \E e \in RetryErrors :
            LET failed == [retry EXCEPT !.invocations = @ + 1, !.lastError = e,
                                        !.thrown = Append(@, e)]
            IN  IF exhausted(retry.attempt, retry.config.maxRetries)
                THEN retry' = [failed EXCEPT !.outcome = "rejected",
                                             !.value = rethrown(e),
                                             !.pc = "done"]
                ELSE retry' = [failed EXCEPT
                                 !.sleeps = Append(@, backoffSleep(e, retry.attempt,
                                                                  retry.config)),
                                 !.attempt = @ + 1]
    /\ UNCHANGED <<scrapeVars, checkpointPage, checkpointName, caller, classified, main, unitVars>>

NextRetry == RetryAttempt

SpecRetry == InitRetry /\ [][NextRetry]_vars

(***************************************************************************)
(* RateLimiter.delay and the clock.  Time is in milliseconds; the clock    *)
(* is monotonic and a sleep lasts at least as long as asked.               *)
(***************************************************************************)
MaxElapsed == 4000

\* how many times delay is called
MaxDelayCalls == 4

TickMs == 1000

\* the delays asked for
DelayChoices == {0, 1000, DefaultDelayMs}

\* time passes; it always may while a caller sleeps
Tick ==
    /\ \/ now < Epoch + MaxElapsed
       \/ caller.pc = "sleeping" /\ now < caller.wakeAt
    /\ now' = now + TickMs
    /\ UNCHANGED <<pc, maxPages, headless, browser, context, navigationSuccess, dom, currentPage,
                   hasNextPage, pagesProcessed, allReviews, seenReviews, errors,
                   primaryFile, checkpoints, outcome, result, raised, caught,
                   pageError, lastClick, calls, site, outputFilename, delayMs,
                   lastRequestTime, requestedAt, auxVars>>

\* a caller that has not called delay yet
CallerReady ==
    [pc |-> "ready", ms |-> 0, calledAt |-> 0, wakeAt |-> 0, slept |-> 0,
     completions |-> 0, completedAt |-> 0, previousCompletedAt |-> 0]

InitDelay ==
    /\ ScrapeIdle
    /\ outputFilename = DefaultOutputFilename
    /\ NamingIdle
    /\ UnitIdle
    /\ retry = Idle
    /\ caller = CallerReady
    /\ classified = Idle
    /\ main = Idle

\* what the caller's record becomes when its delay() returns at time t
Completed(c, t) ==
    [c EXCEPT !.pc = "ready", !.completions = @ + 1, !.completedAt = t,
              !.previousCompletedAt = c.completedAt]

\* delay(milliseconds) up to its await: read the clock, work out what is
\* left of the delay; with nothing left, set lastRequestTime and return
DelayCall ==
    /\ caller.pc = "ready"
    /\ caller.completions < MaxDelayCalls
    /\ \E milliseconds \in DelayChoices :
        LET remaining == remainingDelay(now, lastRequestTime, milliseconds)
            called == [caller EXCEPT !.ms = milliseconds, !.calledAt = now,
                                     !.slept = remaining,
                                     !.wakeAt = now + remaining]
        IN  IF now - lastRequestTime < milliseconds
            THEN /\ caller' = [called EXCEPT !.pc = "sleeping"]
                 /\ UNCHANGED lastRequestTime
            ELSE /\ caller' = Completed(called, now)
                 /\ lastRequestTime' = stampOfDelay(now, now)
    /\ UNCHANGED <<pc, maxPages, headless, browser, context, navigationSuccess, dom, currentPage,
                   hasNextPage, pagesProcessed, allReviews, seenReviews, errors,
                   primaryFile, checkpoints, outcome, result, raised, caught,
                   pageError, lastClick, calls, site, outputFilename, delayMs,
                   now, requestedAt, checkpointPage, checkpointName, retry,
                   classified, main, unitVars>>

\* the sleep is over: this.lastRequestTime = Date.now(), and delay returns
DelayWake ==
    /\ caller.pc = "sleeping"
    /\ now >= caller.wakeAt
    /\ lastRequestTime' = stampOfDelay(caller.calledAt, now)
    /\ caller' = Completed(caller, now)
    /\ UNCHANGED <<pc, maxPages, headless, browser, context, navigationSuccess, dom, currentPage,
                   hasNextPage, pagesProcessed, allReviews, seenReviews, errors,
                   primaryFile, checkpoints, outcome, result, raised, caught,
                   pageError, lastClick, calls, site, outputFilename, delayMs,
                   now, requestedAt, checkpointPage, checkpointName, retry,
                   classified, main, unitVars>>

NextDelay ==
    \/ DelayCall
    \/ DelayWake
    \/ Tick

SpecDelay == InitDelay /\ [][NextDelay]_vars

(***************************************************************************)
(* One RateLimiter with several callers: a caller may call delay() while   *)
(* the call of another is still asleep.                                    *)
(***************************************************************************)
MaxCallers == 2

\* no call has completed yet
NoCompletion ==
    [set |-> FALSE, ms |-> 0, calledAt |-> 0, completedAt |-> 0, hadPrevious |-> FALSE,
     gap |-> 0, overlapped |-> FALSE, sameDelay |-> FALSE]

\* the call of c completes at time t: how far it is from the completion
\* before it, whether it had started before that one completed, and whether
\* the two calls asked for the same delay
CompletionOf(c, t, latest) ==
    [set |-> TRUE, ms |-> c.ms, calledAt |-> c.calledAt, completedAt |-> t,
     hadPrevious |-> latest.set,
     gap |-> IF latest.set THEN t - latest.completedAt ELSE 0,
     overlapped |-> latest.set /\ c.calledAt < latest.completedAt,
     sameDelay |-> latest.set /\ c.ms = latest.ms]

InitOverlap ==
    /\ ScrapeIdle
    /\ outputFilename = DefaultOutputFilename
    /\ NamingIdle
    /\ retry = Idle
    /\ caller = Idle
    /\ classified = Idle
    /\ main = Idle
    /\ extraction = Idle
    /\ navigation = Idle
    /\ transformed = Idle
    /\ controller = Idle
    /\ callers = [calls |-> [k \in 1..MaxCallers |-> CallerReady],
                  latest |-> NoCompletion, started |-> 0]

OverlapUnchanged ==
    UNCHANGED <<pc, maxPages, headless, browser, context, navigationSuccess, dom,
                currentPage, hasNextPage, pagesProcessed, allReviews, seenReviews,
                errors, primaryFile, checkpoints, outcome, result, raised, caught,
                pageError, lastClick, calls, site, outputFilename, delayMs,
                requestedAt, checkpointPage, checkpointName, retry, caller,
                classified, main, extraction, navigation, transformed, controller>>

\* time passes; it always may while a caller sleeps
TickOverlap ==
    /\ \/ now < Epoch + MaxElapsed
       \/ \E k \in 1..MaxCallers :
             callers.calls[k].pc = "sleeping" /\ now < callers.calls[k].wakeAt
    /\ now' = now + TickMs
    /\ UNCHANGED <<lastRequestTime, callers>>
    /\ OverlapUnchanged

\* caller k calls delay(milliseconds): as DelayCall, whatever the calls of
\* the other callers are doing
OverlapCall(k) ==
    /\ callers.calls[k].pc = "ready"
    /\ callers.started < MaxDelayCalls
    /\ \E milliseconds \in DelayChoices :
        LET c == callers.calls[k]
            remaining == remainingDelay(now, lastRequestTime, milliseconds)
            called == [c EXCEPT !.ms = milliseconds, !.calledAt = now,
                                !.slept = remaining, !.wakeAt = now + remaining]
        IN  IF now - lastRequestTime < milliseconds
            THEN /\ callers' = [callers EXCEPT
                                  !.calls[k] = [called EXCEPT !.pc = "sleeping"],
                                  !.started = @ + 1]
                 /\ UNCHANGED lastRequestTime
            ELSE /\ callers' = [calls |-> [callers.calls EXCEPT ![k] = Completed(called, now)],
                                latest |-> CompletionOf(called, now, callers.latest),
                                started |-> callers.started + 1]
                 /\ lastRequestTime' = stampOfDelay(now, now)
    /\ UNCHANGED now
    /\ OverlapUnchanged

\* the sleep of caller k is over: this.lastRequestTime = Date.now()
OverlapWake(k) ==
    /\ callers.calls[k].pc = "sleeping"
    /\ now >= callers.calls[k].wakeAt
    /\ lastRequestTime' = stampOfDelay(callers.calls[k].calledAt, now)
    /\ callers' = [calls |-> [callers.calls EXCEPT ![k] = Completed(@, now)],
                   latest |-> CompletionOf(callers.calls[k], now, callers.latest),
                   started |-> callers.started]
    /\ UNCHANGED now
    /\ OverlapUnchanged

NextOverlap ==
    \/ \E k \in 1..MaxCallers : OverlapCall(k)
    \/ \E k \in 1..MaxCallers : OverlapWake(k)
    \/ TickOverlap

SpecOverlap == InitOverlap /\ [][NextOverlap]_vars

(***************************************************************************)
(* scrape() with the clock running: whatever the run awaits may take time. *)
(***************************************************************************)
InitPaced ==
    /\ ScrapeStart
    /\ maxPages \in (1..MaxSitePages) \cup {Infinity}
    /\ headless = TRUE
    /\ site = [pages |-> MaxSitePages, doms |-> LongDoms]
    /\ outputFilename = DefaultOutputFilename
    /\ delayMs \in DelayChoices
    /\ AuxIdle

NextPaced ==
    \/ Next
    \/ Tick

SpecPaced == InitPaced /\ [][NextPaced]_vars

(***************************************************************************)
(* ErrorHandler.handleError on its own, for every message that includes at *)
(* most MaxPhrases of the phrases the classifier looks for.                *)
(***************************************************************************)
MaxPhrases == 2

\* every phrase isCriticalError and isRecoverableError test for
Phrases ==
    captchaIndicators \cup
    {"invalid", "url", "browser", "launch", "initialize", "eacces", "eperm",
     "permission denied", "enoent", "timeout", "timed out", "500", "502", "503",
     "504", "econnrefused", "econnreset", "connection", "refused", "429",
     "rate limit", "network", "net::"}

\* a message that includes a phrase includes the phrases inside that phrase
Includable(msg) ==
    /\ "recaptcha" \in msg => "captcha" \in msg
    /\ "econnrefused" \in msg => "refused" \in msg

\* the subsets of S of at most n elements
RECURSIVE SetsUpTo(_, _)
SetsUpTo(S, n) ==
    IF n = 0 THEN {{}}
    ELSE LET smaller == SetsUpTo(S, n - 1)
         IN  smaller \cup {m \cup {x} : m \in smaller, x \in S}

Messages == {msg \in SetsUpTo(Phrases, MaxPhrases) : Includable(msg)}

\* context.operation
Operations == {"main", "export", "navigation"}

InitClassify ==
    /\ ScrapeIdle
    /\ outputFilename = DefaultOutputFilename
    /\ NamingIdle
    /\ UnitIdle
    /\ retry = Idle
    /\ caller = Idle
    /\ classified \in {[pc |-> "ready", error |-> [src |-> "caller", msg |-> msg],
                         context |-> [operation |-> op], category |-> "none",
                         action |-> "none", isCaptcha |-> FALSE] :
                            msg \in Messages, op \in Operations}
    /\ main = Idle

\* handleError(error, context), with getErrorCategory and isCaptcha
HandleError ==
    /\ classified.pc = "ready"
    /\ classified' = [classified EXCEPT
            !.pc = "done",
            !.category = classifyError(classified.error, classified.context),
            !.action = handleError(classified.error, classified.context),
            !.isCaptcha = isCaptchaError(classified.error.msg)]
    /\ UNCHANGED <<scrapeVars, checkpointPage, checkpointName, retry, caller, main, unitVars>>

NextClassify == HandleError

SpecClassify == InitClassify /\ [][NextClassify]_vars

(***************************************************************************)
(* main(): parse and validate the command line, build the configuration,   *)
(* run scrape(), exit.  The process may be signalled at any time.          *)
(***************************************************************************)
ExitSuccess == 0

ExitFailure == 1

ExitSigint == 130

ExitSigterm == 143

\* what validateOptions and the ScraperConfig constructor throw
\* what parseArguments, validateOptions and fromCLIOptions throw: the fixed
\* messages, and `Invalid number: "${value}"` quoting the argument given,
\* here --max-pages blocked
StartupErrors ==
    {[src |-> "config", msg |-> {"invalid", "url"}],
     [src |-> "cli", msg |-> {}],
     [src |-> "cli", msg |-> {"invalid", "blocked"}]}

MainStarting ==
    [pc |-> "start", ready |-> FALSE, error |-> NoError, action |-> "none",
     captchaMessage |-> FALSE, exitCode |-> ExitSuccess, cause |-> "none"]

InitMain ==
    /\ ScrapeStart
    /\ maxPages \in {1, Infinity}
    /\ headless = TRUE
    /\ site = [pages |-> MaxSitePages, doms |-> LongDoms]
    /\ outputFilename = DefaultOutputFilename
    /\ delayMs = DefaultDelayMs
    /\ NamingIdle
    /\ UnitIdle
    /\ retry = Idle
    /\ caller = Idle
    /\ classified = Idle
    /\ main = MainStarting

\* process.exit(code)
Exit(m, code, cause) == [m EXCEPT !.pc = "exited", !.exitCode = code, !.cause = cause]

\* a run that finished with errors exits with the failure status
exitCodeOfResultStrict(scrapingResult) ==
    IF scrapingResult.errors # <<>> THEN ExitFailure ELSE ExitSuccess

\* process.exit(0) in both branches on result.errors.length
exitCodeOfResult(scrapingResult) ==
    IF scrapingResult.errors # <<>> THEN ExitSuccess ELSE ExitSuccess

\* the catch of main for an Error: classify it when errorHandler and logger
\* exist, say so when it is an anti-bot error, and process.exit(1)
\* the message logged for every error that terminates
antiBotMessageOnTerminate(ready, action, e) == ready /\ action = "terminate"

\* logger.error('CAPTCHA or anti-bot protection detected. Cannot continue.')
\* is reached when errorHandler && logger, action === TERMINATE and
\* errorHandler.isCaptcha(error)
antiBotMessage(ready, action, e) ==
    ready /\ action = "terminate" /\ isCaptchaError(e.msg)

MainCatch(m, e) ==
    LET action == IF m.ready THEN handleError(e, [operation |-> "main"]) ELSE "none"
    IN  Exit([m EXCEPT !.error = e, !.action = action,
                       !.captchaMessage = antiBotMessage(m.ready, action, e)],
             ExitFailure, "catch")

\* main up to the call of scrape(): an Error thrown on the way is caught
\* before logger and errorHandler exist
MainStart ==
    /\ main.pc = "start"
    /\ \/ \E e \in StartupErrors : main' = MainCatch(main, e)
       \/ main' = [main EXCEPT !.pc = "scraping", !.ready = TRUE]
    /\ UNCHANGED <<scrapeVars, checkpointPage, checkpointName, retry, caller, classified, unitVars>>

\* scrape() runs while main awaits it
MainScraping ==
    /\ main.pc = "scraping"
    /\ Next

\* scrape() has settled: exit 0 with its result, or catch what it threw
MainSettled ==
    /\ main.pc = "scraping"
    /\ pc = "done"
    /\ IF outcome = "resolved"
       THEN main' = Exit(main, exitCodeOfResult(result), "return")
       ELSE main' = MainCatch(main, raised)
    /\ UNCHANGED <<scrapeVars, checkpointPage, checkpointName, retry, caller, classified, unitVars>>

\* the handlers of SIGINT and SIGTERM
Signal ==
    /\ main.pc \in {"start", "scraping"}
    /\ \/ main' = Exit(main, ExitSigint, "SIGINT")
       \/ main' = Exit(main, ExitSigterm, "SIGTERM")
    /\ UNCHANGED <<scrapeVars, checkpointPage, checkpointName, retry, caller, classified, unitVars>>

NextMain ==
    \/ MainStart
    \/ MainScraping
    \/ MainSettled
    \/ Signal

SpecMain == InitMain /\ [][NextMain]_vars

(***************************************************************************)
(* ContentExtractor.extractReviews called on a page.                       *)
(***************************************************************************)
Repeat(char, n) == [i \in 1..n |-> char]

\* a review element: the answers of its field selectors, the texts of its
\* <p> descendants (or a throw of element.$$('p')) and its textContent
Element(rating, text, date, reviewerName, title, verified, paragraphs, textContent) ==
    [rating |-> Answers(rating, REVIEW_SELECTORS.rating),
     text |-> Answers(text, REVIEW_SELECTORS.text),
     date |-> Answers(date, REVIEW_SELECTORS.date),
     reviewerName |-> Answers(reviewerName, REVIEW_SELECTORS.reviewerName),
     title |-> Answers(title, REVIEW_SELECTORS.title),
     verified |-> Answers(verified, REVIEW_SELECTORS.verified),
     paragraphs |-> paragraphs,
     textContent |-> textContent]

Paragraphs(texts) == [threw |-> FALSE, texts |-> texts]
ParagraphsThrow == [threw |-> TRUE, texts |-> <<>>]

\* an element whose text selectors find nothing
Unmarked(rating, paragraphs, textContent) ==
    Element(<<Match(rating)>>, <<>>, <<Match(<<"d">>)>>, <<Match(<<"c">>)>>,
            <<>>, <<>>, paragraphs, textContent)

\* the elements a page may hold: one with every field under its first
\* selector; one without title and verified mark; one without rating; one
\* whose text is under the third text selector, the first throwing and the
\* second holding blanks; and elements with unmarked text: paragraphs of 5,
\* 21 and 30 characters; lines of 21, 30 and 30 characters under a short
\* paragraph; nothing longer than 20 characters; a throwing paragraph query
ElementPool ==
    { Element(<<Match(<<"5">>)>>, <<Match(<<" ", "a", " ">>)>>, <<Match(<<"d">>)>>,
              <<Match(<<"c">>)>>, <<Match(<<"t">>)>>, <<Match(<<"v">>)>>,
              Paragraphs(<<>>), <<"a">>),
      Element(<<Match(<<"4">>)>>, <<Match(<<"b">>)>>, <<Match(<<"d">>)>>,
              <<Match(<<"c">>)>>, <<>>, <<Throws>>, Paragraphs(<<>>), <<"b">>),
      Element(<<NoMatch, Match(<<SP>>)>>, <<Match(<<"e">>)>>, <<Match(<<"d">>)>>,
              <<Match(<<"c">>)>>, <<Match(<<"t">>)>>, <<>>, Paragraphs(<<>>), <<"e">>),
      Element(<<Match(<<"3">>)>>, <<Throws, Match(<<SP, LF>>), Match(<<"f">>)>>,
              <<Match(<<"d">>)>>, <<Match(<<"c">>)>>, <<>>, <<>>,
              Paragraphs(<<>>), <<"f">>),
      Unmarked(<<"2">>,
               Paragraphs(<<Repeat("s", 5), Repeat("p", 21), Repeat("q", 30)>>),
               Repeat("s", 5) \o Repeat("p", 21) \o Repeat("q", 30)),
      Unmarked(<<"1">>,
               Paragraphs(<<Repeat("s", 5)>>),
               Repeat("s", 5) \o <<LF, SP>> \o Repeat("x", 21) \o <<LF>>
                   \o Repeat("y", 30) \o <<SP, LF>> \o Repeat("z", 30)),
      Unmarked(<<"5">>, Paragraphs(<<Repeat("t", 20)>>), Repeat("t", 20)),
      Unmarked(<<"4">>, ParagraphsThrow, Repeat("u", 30)) }

ElementLists == SeqsUpTo(ElementPool, MaxContainers)

SelectorThrows == [threw |-> TRUE, elements |-> <<>>]
SelectorYields(elements) == [threw |-> FALSE, elements |-> elements]

\* a page on which selector `first` is the first to yield elements, the
\* selectors before it all answer as `before` and those after it as `after`;
\* first = 0 is a page on which none yields
PageWith(first, before, elements, after) ==
    [i \in 1..REVIEW_SELECTORS.reviewContainer |->
        IF first = 0 \/ i < first THEN before
        ELSE IF i = first THEN SelectorYields(elements)
        ELSE after]

Pages ==
    { PageWith(first, before, elements, after) :
        first \in 1..REVIEW_SELECTORS.reviewContainer,
        before \in {SelectorThrows, SelectorYields(<<>>)},
        elements \in ElementLists \ {<<>>},
        after \in {SelectorYields(<<>>)}
                   \cup {SelectorYields(<<e>>) : e \in ElementPool} }
    \cup { PageWith(0, before, <<>>, before) :
              before \in {SelectorThrows, SelectorYields(<<>>)} }

InitExtract ==
    /\ ScrapeIdle
    /\ outputFilename = DefaultOutputFilename
    /\ NamingIdle
    /\ retry = Idle
    /\ caller = Idle
    /\ classified = Idle
    /\ main = Idle
    /\ callers = Idle
    /\ extraction \in {[pc |-> "called", page |-> page] : page \in Pages}
    /\ navigation = Idle
    /\ transformed = Idle
    /\ controller = Idle

\* extractReviews: the containers found, the fields found in each, the
\* records returned and the warnings logged; no statement of it throws
ExtractReviews ==
    /\ extraction.pc = "called"
    /\ LET found == findReviewContainers(extraction.page, 1)
           fields == [i \in 1..Len(found.elements) |-> extractFields(found.elements[i])]
           reviews == extractReviews(fields)
       IN  extraction' =
             [pc |-> "returned", page |-> extraction.page,
              selector |-> found.selector, elements |-> found.elements,
              fields |-> fields, reviews |-> reviews,
              warnedNoElements |-> (Len(found.elements) = 0),
              warnedFailed |-> Len(fields) - Len(reviews)]
    /\ UNCHANGED <<scrapeVars, checkpointPage, checkpointName, retry, caller, classified,
                   main, callers, navigation, transformed, controller>>

NextExtract == ExtractReviews

SpecExtract == InitExtract /\ [][NextExtract]_vars

(***************************************************************************)
(* DataTransformer: one call of parseRating, sanitizeText or normalizeDate *)
(* on a string.                                                            *)
(***************************************************************************)
\* digits on both sides of the range, the point, and a character and a
\* blank that are no part of a number
RatingChars == {"0", "1", "5", "6", ".", "/", SP}

RatingStrings == SeqsUpTo(RatingChars, MaxRatingLen)

TextChars == {SP, LF, CR, "a"}

TextStrings == SeqsUpTo(TextChars, MaxTextLen)

\* strings of the form YYYY-MM-DD, dates of the calendar or not
CanonicalDates ==
    { year \o <<"-">> \o month \o <<"-">> \o day :
        year \in {<<"0", "0", "0", "0">>, <<"0", "0", "0", "1">>, <<"1", "9", "0", "0">>,
                  <<"2", "0", "2", "3">>, <<"2", "0", "2", "4">>},
        month \in {<<"0", "0">>, <<"0", "1">>, <<"0", "2">>, <<"0", "4">>,
                   <<"1", "2">>, <<"1", "3">>},
        day \in {<<"0", "0">>, <<"0", "1">>, <<"1", "5">>, <<"2", "9">>, <<"3", "0">>,
                 <<"3", "1">>, <<"3", "2">>} }

\* date-time strings: a date, a time of day, and Z, milliseconds and Z, or
\* nothing; and one string that only starts like a date-time
DateTimes ==
    { date \o <<"T">> \o time \o suffix :
        date \in {<<"2", "0", "2", "3", "-", "1", "2", "-", "3", "1">>,
                  <<"2", "0", "2", "4", "-", "0", "1", "-", "0", "1">>,
                  <<"2", "0", "2", "4", "-", "0", "1", "-", "1", "5">>,
                  <<"2", "0", "2", "4", "-", "0", "2", "-", "2", "9">>,
                  <<"2", "0", "2", "4", "-", "0", "3", "-", "0", "1">>},
        time \in {<<"0", "0", ":", "0", "0", ":", "0", "0">>,
                  <<"1", "0", ":", "3", "0", ":", "0", "0">>,
                  <<"2", "3", ":", "3", "0", ":", "0", "0">>},
        suffix \in LocalTimeSuffixes \cup UtcSuffixes }
    \cup {<<"2", "0", "2", "4", "-", "0", "1", "-", "1", "5", "T", "x">>}

\* the time zones the process may run in, in minutes ahead of UTC: Los
\* Angeles, New York, UTC, Berlin, Kolkata, Kiritimati
TimezoneOffsets == {-480, -300, 0, 60, 330, 840}

TransformerCalled(method, input) == [pc |-> "called", method |-> method, input |-> input]

\* a call of normalizeDate in a process of a time zone
NormalizeDateCalled(input, offset) ==
    [pc |-> "called", method |-> "normalizeDate", input |-> input, offset |-> offset]

InitTransform ==
    /\ ScrapeIdle
    /\ outputFilename = DefaultOutputFilename
    /\ NamingIdle
    /\ retry = Idle
    /\ caller = Idle
    /\ classified = Idle
    /\ main = Idle
    /\ callers = Idle
    /\ extraction = Idle
    /\ navigation = Idle
    /\ transformed \in
          {TransformerCalled("parseRating", s) : s \in RatingStrings}
          \cup {TransformerCalled("sanitizeText", s) : s \in TextStrings}
          \cup {NormalizeDateCalled(s, offset) :
                    s \in CanonicalDates \cup DateTimes, offset \in TimezoneOffsets}
    /\ controller = Idle

TransformerUnchanged ==
    UNCHANGED <<scrapeVars, checkpointPage, checkpointName, retry, caller, classified,
                main, callers, extraction, navigation, controller>>

ParseRating ==
    /\ transformed.pc = "called" /\ transformed.method = "parseRating"
    /\ transformed' = [pc |-> "returned", method |-> transformed.method,
                       input |-> transformed.input,
                       output |-> parseRating(transformed.input)]
    /\ TransformerUnchanged

SanitizeText ==
    /\ transformed.pc = "called" /\ transformed.method = "sanitizeText"
    /\ transformed' = [pc |-> "returned", method |-> transformed.method,
                       input |-> transformed.input,
                       output |-> sanitizeText(transformed.input)]
    /\ TransformerUnchanged

NormalizeDate ==
    /\ transformed.pc = "called" /\ transformed.method = "normalizeDate"
    /\ transformed' = [pc |-> "returned", method |-> transformed.method,
                       input |-> transformed.input, offset |-> transformed.offset,
                       output |-> normalizeDate(transformed.input, transformed.offset)]
    /\ TransformerUnchanged

NextTransform ==
    \/ ParseRating
    \/ SanitizeText
    \/ NormalizeDate

SpecTransform == InitTransform /\ [][NextTransform]_vars

(***************************************************************************)
(* BrowserController under a sequence of initialize(), createPage() and    *)
(* close() calls, each awaited before the next and each succeeding.  A     *)
(* browser is the number of its launch, 0 is null; its context has the     *)
(* same number.                                                            *)
(***************************************************************************)
\* the calls made on one controller
MaxControllerCalls == 5

NoCall == [method |-> "none", browserBefore |-> 0, contextBefore |-> 0,
           launchedBefore |-> 0, closedBefore |-> {}, returned |-> 0]

\* new BrowserController(): browser = null, context = null
ControllerConstructed ==
    [pc |-> "ready", browser |-> 0, context |-> 0, launched |-> 0, closed |-> {},
     pages |-> 0, calls |-> 0, launchedSinceClose |-> FALSE, call |-> NoCall]

InitController ==
    /\ ScrapeIdle
    /\ outputFilename = DefaultOutputFilename
    /\ NamingIdle
    /\ retry = Idle
    /\ caller = Idle
    /\ classified = Idle
    /\ main = Idle
    /\ callers = Idle
    /\ extraction = Idle
    /\ navigation = Idle
    /\ transformed = Idle
    /\ controller = ControllerConstructed

ControllerUnchanged ==
    UNCHANGED <<scrapeVars, checkpointPage, checkpointName, retry, caller, classified,
                main, callers, extraction, navigation, transformed>>

\* a method is called on a controller no call of which is pending
ControllerCall(c, method) ==
    [c EXCEPT !.calls = @ + 1,
              !.call = [method |-> method, browserBefore |-> c.browser,
                        contextBefore |-> c.context, launchedBefore |-> c.launched,
                        closedBefore |-> c.closed, returned |-> 0]]

\* this.browser !== null && this.context !== null
ControllerIsInitialized(c) == c.browser # 0 /\ c.context # 0

\* initialize(): return this.browser when it is set, else go on to launch
ControllerInitialize ==
    /\ controller.pc = "ready" /\ controller.calls < MaxControllerCalls
    /\ LET called == ControllerCall(controller, "initialize")
       IN  IF controller.browser # 0
           THEN controller' = [called EXCEPT !.call.returned = controller.browser]
           ELSE controller' = [called EXCEPT !.pc = "launch"]
    /\ ControllerUnchanged

\* this.browser = await chromium.launch(...)
ControllerLaunch ==
    /\ controller.pc = "launch"
    /\ controller' = [controller EXCEPT !.pc = "newContext", !.launched = @ + 1,
                                        !.browser = controller.launched + 1,
                                        !.launchedSinceClose = TRUE]
    /\ ControllerUnchanged

\* this.context = await this.browser.newContext(...); initialize returns
\* this.browser, to its caller or into createPage
ControllerNewContext ==
    /\ controller.pc = "newContext"
    /\ controller' =
          IF controller.call.method = "createPage"
          THEN [controller EXCEPT !.context = controller.browser, !.pc = "newPage"]
          ELSE [controller EXCEPT !.context = controller.browser, !.pc = "ready",
                                  !.call.returned = controller.browser]
    /\ ControllerUnchanged

\* createPage(): initialize() first when there is no context
ControllerCreatePage ==
    /\ controller.pc = "ready" /\ controller.calls < MaxControllerCalls
    /\ LET called == ControllerCall(controller, "createPage")
       IN  IF controller.context # 0
           THEN controller' = [called EXCEPT !.pc = "newPage"]
           ELSE IF controller.browser # 0
           THEN controller' = [called EXCEPT !.pc = "threw"]
           ELSE controller' = [called EXCEPT !.pc = "launch"]
    /\ ControllerUnchanged

\* const page = await this.context.newPage(); return page
ControllerNewPage ==
    /\ controller.pc = "newPage"
    /\ controller' = [controller EXCEPT !.pc = "ready", !.pages = @ + 1]
    /\ ControllerUnchanged

\* close() leaving this.browser set
closedContextOnly(c) == [c EXCEPT !.context = 0, !.launchedSinceClose = FALSE]

\* close(): the context closed and forgotten, then the browser
closed(c) ==
    [c EXCEPT !.context = 0, !.browser = 0,
              !.closed = IF c.browser # 0 THEN @ \cup {c.browser} ELSE @,
              !.launchedSinceClose = FALSE]

ControllerClose ==
    /\ controller.pc = "ready" /\ controller.calls < MaxControllerCalls
    /\ controller' = closed(ControllerCall(controller, "close"))
    /\ ControllerUnchanged

NextController ==
    \/ ControllerInitialize
    \/ ControllerLaunch
    \/ ControllerNewContext
    \/ ControllerCreatePage
    \/ ControllerNewPage
    \/ ControllerClose

SpecController == InitController /\ [][NextController]_vars

(***************************************************************************)
(* PageNavigator: one call of navigateToURL or of clickNextPage, against a *)
(* page that answers each Playwright call or makes it throw.               *)
(***************************************************************************)
\* what page.goto resolves to or does: a response with a status, null, a throw
GotoStatuses == {200, 204, 304, 399, 400, 404, 429, 500, 503}

GotoOutcomes ==
    {[kind |-> "response", status |-> status] : status \in GotoStatuses}
    \cup {[kind |-> "null", status |-> 0], [kind |-> "throws", status |-> 0]}

\* status >= 400
ErrorStatus == 400

\* a status of exactly 400 let through
navigateToURLAbove(answer) ==
    answer.kind = "response" /\ ~(answer.status > ErrorStatus)

\* navigateToURL: false for a throw, for no response and for status >= 400
navigateToURL(answer) ==
    answer.kind = "response" /\ ~(answer.status >= ErrorStatus)

\* const nextPageSelectors
nextPageSelectors == 8

\* what page.$(selector), isVisible and evaluate give for one selector
SelectorOutcomes ==
    {[kind |-> "null", isVisible |-> FALSE, isDisabled |-> FALSE],
     [kind |-> "throws", isVisible |-> FALSE, isDisabled |-> FALSE]}
    \cup {[kind |-> "element", isVisible |-> v, isDisabled |-> d] : v, d \in BOOLEAN}

\* the messages of the errors Playwright throws
PlaywrightMessages == {"Timeout 30000ms exceeded", "Element is not attached to the DOM"}

\* for (let attempt = 0; attempt < 3; attempt++)
MaxClickAttempts == 3

\* no dismissal before a retry
dismissBeforeAttemptNever(attempt) == FALSE

\* if (attempt > 0) await this.dismissModals()
dismissBeforeAttempt(attempt) == attempt > 0

NavigationResult(success, hasNext, error) ==
    [success |-> success, hasNextPage |-> hasNext, error |-> error]

\* a click attempt that awaits one operation after the other
promiseAllInTurn(attempt) == {[op |-> "click", attempt |-> attempt]}

\* await Promise.all([this.page.waitForLoadState('domcontentloaded'),
\* clickedElement.click()]): the operations the attempt starts on the page
\* handle before it awaits any of them
promiseAll(attempt) ==
    {[op |-> "waitForLoadState", attempt |-> attempt], [op |-> "click", attempt |-> attempt]}

\* outstanding: the operations started on the page handle that have not
\* settled yet
NavigatorCalled(method) ==
    [pc |-> "called", method |-> method, goto |-> [kind |-> "none", status |-> 0],
     selector |-> 0, attempt |-> 0, attempts |-> <<>>, dismissals |-> 0,
     outstanding |-> {},
     returned |-> FALSE, result |-> NavigationResult(FALSE, FALSE, "")]

InitNavigator ==
    /\ ScrapeIdle
    /\ outputFilename = DefaultOutputFilename
    /\ NamingIdle
    /\ retry = Idle
    /\ caller = Idle
    /\ classified = Idle
    /\ main = Idle
    /\ callers = Idle
    /\ extraction = Idle
    /\ navigation \in {NavigatorCalled(method) : method \in {"navigateToURL", "clickNextPage"}}
    /\ transformed = Idle
    /\ controller = Idle

NavigatorUnchanged ==
    UNCHANGED <<scrapeVars, checkpointPage, checkpointName, retry, caller, classified,
                main, callers, extraction, transformed, controller>>

\* navigateToURL, whole: page.goto and the value returned
NavigatorGoto ==
    /\ navigation.pc = "called" /\ navigation.method = "navigateToURL"
    /\ \E answer \in GotoOutcomes :
          navigation' = [navigation EXCEPT !.pc = "returned", !.goto = answer,
                                           !.returned = navigateToURL(answer)]
    /\ NavigatorUnchanged

\* clickNextPage up to the selector loop: await this.dismissModals()
NavigatorDismissModals ==
    /\ navigation.pc = "called" /\ navigation.method = "clickNextPage"
    /\ navigation' = [navigation EXCEPT !.pc = "locating", !.selector = 1,
                                        !.dismissals = 1]
    /\ NavigatorUnchanged

\* one round of the selector loop, and the return when the loop ends with
\* clickedElement null; a throw goes to the outer catch
NavigatorLocate ==
    /\ navigation.pc = "locating"
    /\ \E answer \in SelectorOutcomes :
          IF answer.kind = "throws"
          THEN \E message \in PlaywrightMessages :
                 navigation' = [navigation EXCEPT
                                  !.pc = "returned", !.selector = 0,
                                  !.result = NavigationResult(FALSE, FALSE, message)]
          ELSE IF answer.kind = "element" /\ answer.isVisible /\ ~answer.isDisabled
          THEN navigation' = [navigation EXCEPT !.pc = "clicking"]
          ELSE IF navigation.selector < nextPageSelectors
          THEN navigation' = [navigation EXCEPT !.selector = @ + 1]
          ELSE navigation' = [navigation EXCEPT
                                !.pc = "returned", !.selector = 0,
                                !.result = NavigationResult(FALSE, FALSE,
                                                            "Next page button not found")]
    /\ NavigatorUnchanged

\* one round of the click loop up to its await: the dismissal before a
\* retry, and Promise.all starting the wait for the load state and the click
NavigatorClick ==
    /\ navigation.pc = "clicking"
    /\ LET attempt == navigation.attempt
           dismissed == dismissBeforeAttempt(attempt)
           dismissals == navigation.dismissals + (IF dismissed THEN 1 ELSE 0)
       IN  IF ~(attempt < MaxClickAttempts)
           THEN navigation' = [navigation EXCEPT
                                 !.pc = "returned",
                                 !.result = NavigationResult(FALSE, FALSE,
                                     "Failed to click next page button after retries")]
           ELSE navigation' = [navigation EXCEPT
                                 !.pc = "awaiting", !.dismissals = dismissals,
                                 !.attempts = Append(@, [dismissed |-> dismissed,
                                                         threw |-> ""]),
                                 !.outstanding = @ \cup promiseAll(attempt)]
    /\ NavigatorUnchanged

\* an operation outstanding on the page handle settles.  Promise.all is
\* fulfilled when both operations of the attempt are, and the loop is left
\* with clickSuccess; it is rejected as soon as one of them is, and the
\* catch retries or, on the last attempt, rethrows to the outer catch, the
\* other operation still being outstanding if it has not settled.  An
\* operation that settles after its Promise.all was rejected changes
\* nothing else
NavigatorSettle ==
    /\ navigation.pc # "idle"
    /\ \E o \in navigation.outstanding :
         LET rest == navigation.outstanding \ {o}
             awaited == navigation.pc = "awaiting" /\ o.attempt = navigation.attempt
         IN  \/ IF awaited /\ ~\E q \in rest : q.attempt = navigation.attempt
                THEN navigation' = [navigation EXCEPT !.pc = "detecting",
                                                      !.outstanding = rest]
                ELSE navigation' = [navigation EXCEPT !.outstanding = rest]
             \/ \E message \in PlaywrightMessages :
                   LET tried == [navigation.attempts EXCEPT ![Len(navigation.attempts)].threw = message]
                   IN  IF ~awaited
                       THEN navigation' = [navigation EXCEPT !.outstanding = rest]
                       ELSE IF navigation.attempt = 2
                       THEN navigation' = [navigation EXCEPT
                                             !.pc = "returned", !.attempts = tried,
                                             !.outstanding = rest,
                                             !.result = NavigationResult(FALSE, FALSE, message)]
                       ELSE navigation' = [navigation EXCEPT
                                             !.pc = "clicking", !.attempt = @ + 1,
                                             !.attempts = tried, !.outstanding = rest]
    /\ NavigatorUnchanged

\* after the click: waitForNetworkIdle, detectNextPageButton, and the return
NavigatorDetect ==
    /\ navigation.pc = "detecting"
    /\ \E found \in BOOLEAN :
          navigation' = [navigation EXCEPT !.pc = "returned",
                                           !.result = NavigationResult(TRUE, found, "")]
    /\ NavigatorUnchanged

NextNavigator ==
    \/ NavigatorGoto
    \/ NavigatorDismissModals
    \/ NavigatorLocate
    \/ NavigatorClick
    \/ NavigatorSettle
    \/ NavigatorDetect

SpecNavigator == InitNavigator /\ [][NextNavigator]_vars

(***************************************************************************)
(* Properties of scrape().                                                 *)
(***************************************************************************)
Range(q) == {q[i] : i \in 1..Len(q)}

\* two records have equal text, reviewerName and date
SameIdentity(a, b) ==
    a.text = b.text /\ a.reviewerName = b.reviewerName /\ a.date = b.date

NoTwoSameIdentity(q) ==
    \A i, j \in 1..Len(q) : i # j => ~SameIdentity(q[i], q[j])

\* the records a step appended to the accumulator
Appended == SubSeq(allReviews', Len(allReviews) + 1, Len(allReviews'))

\* a step in which a page went through extraction, dedup and push
PageProcessedStep == pc = "page" /\ pagesProcessed' = pagesProcessed + 1

\* the transformed records of the extractable containers of the page shown
Presented == MapTransform(extractReviews(dom))

\* record i of the page is the first with its key, in the page and in the run
FirstSeen(t, i) ==
    /\ reviewKey(t[i]) \notin seenReviews
    /\ \A j \in 1..(i - 1) : reviewKey(t[j]) # reviewKey(t[i])

\* C1: a transformed record is appended iff its identity key has not been
\* seen earlier in the run (on an earlier page or earlier on the same page),
\* so neither the accumulator nor any export of it holds two records with
\* equal text, reviewerName and date, and a record presented twice is kept
\* exactly once.
C1_DedupKeepsFirstOnly ==
    /\ [](/\ NoTwoSameIdentity(allReviews)
          /\ NoTwoSameIdentity(primaryFile.rows)
          /\ \A c \in checkpoints : NoTwoSameIdentity(c.rows)
          /\ seenReviews = {reviewKey(r) : r \in Range(allReviews)})
    /\ [][PageProcessedStep =>
            LET t == Presented
                first == {i \in 1..Len(t) : FirstSeen(t, i)}
            IN  /\ Len(allReviews') = Len(allReviews) + Cardinality(first)
                /\ \A i \in 1..Len(t) :
                      (t[i] \in Range(Appended)) <=> (\E k \in first : t[k] = t[i])
                /\ \A i \in 1..Len(t) : reviewKey(t[i]) \in seenReviews'
                /\ SubSeq(allReviews', 1, Len(allReviews)) = allReviews]_vars

\* a second page showed twice a record whose identity the first page already
\* had, and the accumulator still holds that record once
C1_Witness ==
    /\ pc = "detect"
    /\ pagesProcessed = 2
    /\ Len(Presented) = 2
    /\ SameIdentity(Presented[1], Presented[2])
    /\ Len(allReviews) = 1
    /\ SameIdentity(allReviews[1], Presented[1])

\* q is picked from the containers of page in container order
IsOrderedPick(q, page) ==
    \E f \in [1..Len(q) -> 1..Len(page)] :
        /\ \A m, n \in 1..Len(q) : m < n => f[m] < f[n]
        /\ \A n \in 1..Len(q) :
              /\ HasRequiredFields(page[f[n]])
              /\ q[n] = transform(extractSingleReview(page[f[n]]))

\* C2: the accumulator, the primary output and the ScrapingResult are in
\* discovery order: a page's records go behind those of all earlier pages and
\* keep their container order; dropped duplicates and skipped containers
\* reorder nothing.
C2_DiscoveryOrder ==
    /\ [][/\ Len(allReviews') >= Len(allReviews)
          /\ SubSeq(allReviews', 1, Len(allReviews)) = allReviews
          /\ IsOrderedPick(Appended, dom)]_vars
    /\ [](/\ primaryFile.exists => primaryFile.rows = allReviews
          /\ result.set => result.totalReviews = Len(allReviews))

\* two pages, the second with a skipped container before a new record, and
\* the export holds the two kept records in discovery order
C2_Witness ==
    /\ pc = "done"
    /\ outcome = "resolved"
    /\ pagesProcessed = 2
    /\ Len(primaryFile.rows) = 2
    /\ Len(dom) = 2
    /\ ~HasRequiredFields(dom[1])
    /\ primaryFile.rows[2] = transform(extractSingleReview(dom[2]))

\* the run aborted: an error reached the outer catch
Aborted == caught # NoError

\* C3 as stated: every termination path, abort included and with zero
\* records too, attempts an export to the primary output before the run ends.
C3_EveryPathExports ==
    pc = "done" => calls.export + calls.partial >= 1

\* C3 amended: normal completion attempts the export also with zero records;
\* an abort attempts it only when at least one record has accumulated, so a
\* run that aborts before the loop ends without any export attempt.
C3_ExportUnlessAbortedEmpty ==
    pc = "done" =>
        /\ ~Aborted => calls.export = 1 /\ primaryFile = FileOf(allReviews)
        /\ Aborted => (calls.partial = 1 <=> Len(allReviews) > 0)
        /\ Aborted /\ caught.src # "export" =>
              /\ Len(allReviews) = 0
              /\ calls.export + calls.partial = 0
              /\ primaryFile = NoFile

\* the seed navigation failed and the run ended without an export attempt
C3_Witness ==
    /\ pc = "done"
    /\ caught = NavigationError
    /\ calls.export + calls.partial = 0

\* C4 as stated: an aborted run re-raises the originating error whether the
\* export attempt succeeded or failed, and never resolves with a result.
C4_AbortAlwaysReraises ==
    pc = "done" /\ Aborted =>
        outcome = "rejected" /\ raised = caught /\ ~result.set

\* C4 amended: an aborted run re-raises the originating error unless the
\* accumulator is non-empty and the export attempt of the handler succeeds;
\* then it resolves with a ScrapingResult whose errors end with the message
\* of the originating error.  When that export fails too, the originating
\* error (not the export error) is re-raised.
C4_AbortReraisesUnlessExported ==
    pc = "done" /\ Aborted =>
        IF calls.partial = 1 /\ primaryFile.exists
        THEN /\ outcome = "resolved"
             /\ result = ScrapingResult(allReviews, pagesProcessed, errors)
             /\ errors[Len(errors)].kind = "critical"
             /\ errors[Len(errors)].msg = caught.msg
             /\ raised = NoError
        ELSE /\ outcome = "rejected"
             /\ raised = caught
             /\ ~result.set

\* the final export failed with records collected and the export of the
\* handler succeeded: the aborted run resolved, with the message of the first
\* export error as the last entry of its errors
C4_Witness ==
    /\ pc = "done"
    /\ caught.src = "export"
    /\ Len(allReviews) > 0
    /\ calls.export = 1 /\ calls.partial = 1
    /\ primaryFile = FileOf(allReviews)
    /\ outcome = "resolved"
    /\ result.errors[Len(result.errors)].msg = caught.msg

\* C5: scrape() never processes more than config.maxPages pages, and once the
\* page just processed has index currentPage >= maxPages the loop stops
\* without another detectNextPageButton, delay or clickNextPage.
C5_PageCap ==
    /\ [](/\ pagesProcessed <= maxPages
          /\ pc \in {"detect", "delay", "click"} => currentPage < maxPages
          /\ calls.detect < maxPages /\ calls.delay < maxPages
          /\ calls.click < maxPages)
    /\ [][PageProcessedStep /\ currentPage >= maxPages =>
            /\ pc' = "export"
            /\ calls'.detect = calls.detect
            /\ calls'.delay = calls.delay
            /\ calls'.click = calls.click]_vars

\* the cap of two pages stopped the loop while the site had a further page
C5_Witness ==
    /\ pc = "export"
    /\ maxPages = 2
    /\ pagesProcessed = 2
    /\ currentPage = 2
    /\ hasNextPage
    /\ calls.click = 1

\* clickNextPage has returned success = false
ClickFailed == lastClick.made /\ ~lastClick.success

\* C6: when clickNextPage returns success = false the orchestrator stops
\* pagination without aborting: one message goes to errors, the accumulator
\* and currentPage stay as they are, the accumulator is exported to the
\* primary output and, that export done, scrape() resolves with a
\* ScrapingResult.
C6_FailedClickStopsGracefully ==
    /\ [][pc = "click" /\ ~lastClick'.success =>
            /\ Len(errors') = Len(errors) + 1
            /\ errors'[Len(errors')].kind = "pagination"
            /\ allReviews' = allReviews
            /\ seenReviews' = seenReviews
            /\ currentPage' = currentPage
            /\ pagesProcessed' = pagesProcessed
            /\ ~hasNextPage'
            /\ pc' = "loop"
            /\ caught' = NoError]_vars
    /\ [](ClickFailed =>
            /\ pc \in {"loop", "export", "catch", "finally", "done"}
            /\ pc \in {"finally", "done"} => calls.export = 1
            /\ pc = "done" /\ primaryFile.exists =>
                  /\ primaryFile.rows = allReviews
                  /\ outcome = "resolved"
                  /\ result = ScrapingResult(allReviews, pagesProcessed, errors)
            /\ pc = "done" /\ ~Aborted => primaryFile.exists)

\* the click on page 2 failed; the run resolved with the records of two pages
C6_Witness ==
    /\ pc = "done"
    /\ ClickFailed
    /\ currentPage = 2
    /\ pagesProcessed = 2
    /\ Len(allReviews) = 2
    /\ outcome = "resolved"
    /\ Len(result.errors) = 1

\* C7: if navigateToURL returns false the run aborts: scrape() rejects with an
\* error, no page is settled or extracted, and pagesProcessed stays 0.
C7_SeedNavigationFailureAborts ==
    navigationSuccess = "false" =>
        /\ pc \in {"catch", "finally", "done"}
        /\ caught = NavigationError
        /\ pagesProcessed = 0
        /\ calls.settle = 0 /\ calls.extract = 0 /\ calls.iterations = 0
        /\ allReviews = <<>>
        /\ outcome # "resolved"
        /\ pc = "done" => outcome = "rejected" /\ raised = NavigationError

\* navigation to the seed URL failed and scrape() has rejected
C7_Witness ==
    /\ pc = "done"
    /\ navigationSuccess = "false"
    /\ outcome = "rejected"
    /\ ~browser

\* the cause of the page error is structural and nothing was collected before
FatalPageCase == pageError.records = 0 /\ pageError.error.structural

\* the page error left scrape() as its rejection
Propagated == outcome = "rejected" /\ raised.src = "page"

PageCatchStep == pc = "page" /\ ~pageError.thrown /\ pageError'.thrown

Retried == calls.extract > calls.iterations

\* C9: a failure raised in the orchestrator loop is routed through the error
\* classifier and its verdict decides the outcome: Fatal aborts the run,
\* Transient has the failed step retried, Ignorable continues with the
\* remaining work.
C9_VerdictDecidesOutcome ==
    pc = "done" /\ pageError.thrown =>
        LET action == handleError(pageError.error,
                                  [operation |-> "page", pageNumber |-> currentPage])
        IN  /\ action = "terminate" => Propagated
            /\ action = "retry" => Retried
            /\ action = "continue" => ~Propagated

\* a step that processed a page on which no review container was found
EmptyPageStep == PageProcessedStep /\ Len(dom) = 0

\* C10 as stated: a page with zero review containers makes extractReviews
\* return an empty sequence and the orchestrator end the pagination loop,
\* with no further next-page detection, delay or click.
C10_EmptyPageEndsLoop ==
    [][EmptyPageStep => extractReviews(dom) = <<>> /\ pc' = "export"]_vars

\* C10 amended: a page with zero review containers makes extractReviews
\* return an empty sequence without throwing; the orchestrator counts the
\* page as processed with no record added and goes on as after any other
\* page: it leaves the loop only at the page cap and otherwise proceeds to
\* next-page detection; the run is not aborted by the empty page.
C10_EmptyPageIsAnOrdinaryPage ==
    /\ [][EmptyPageStep =>
            /\ extractReviews(dom) = <<>>
            /\ allReviews' = allReviews
            /\ errors' = errors
            /\ hasNextPage' = hasNextPage
            /\ caught' = NoError
            /\ pc' = (IF currentPage >= maxPages THEN "export" ELSE "detect")]_vars
    /\ [][pc = "page" /\ Len(dom) = 0 =>
            PageProcessedStep \/ PageCatchStep]_vars

\* the first page was empty and was counted, and the loop went on to click
\* through to a second page
C10_Witness ==
    /\ pc = "loop"
    /\ currentPage = 2
    /\ pagesProcessed = 1
    /\ allReviews = <<>>
    /\ seenReviews = {}
    /\ lastClick.made /\ lastClick.success
    /\ ~pageError.thrown

(***************************************************************************)
(* Checkpoints.                                                            *)
(***************************************************************************)
\* a step in which a checkpoint export was attempted
CheckpointStep == calls'.checkpoint = calls.checkpoint + 1

\* a step in which the checkpoint export threw
CheckpointFailedStep == calls'.checkpointFailed = calls.checkpointFailed + 1

\* C11: a checkpoint export is attempted exactly in the steps in which the
\* count of processed pages becomes a positive multiple of 50; it exports
\* the whole accumulator; when it throws, the accumulator is what the page
\* made it, no error is recorded, the run is not aborted and the loop goes
\* on as after any other page.
C11_CheckpointEveryFiftyPages ==
    [][/\ CheckpointStep <=>
            /\ PageProcessedStep
            /\ pagesProcessed' > 0
            /\ pagesProcessed' % 50 = 0
       /\ calls'.checkpoint \in {calls.checkpoint, calls.checkpoint + 1}
       /\ CheckpointFailedStep => CheckpointStep
       /\ CheckpointStep /\ ~CheckpointFailedStep =>
            \/ \E c \in checkpoints' \ checkpoints :
                    c.page = pagesProcessed' /\ c.rows = allReviews'
            \/ primaryFile' = FileOf(allReviews')
       /\ CheckpointFailedStep =>
            /\ allReviews' = allReviews \o filterUnique(Presented, seenReviews).unique
            /\ checkpoints' = checkpoints
            /\ primaryFile' = primaryFile
            /\ errors' = errors
            /\ hasNextPage' = hasNextPage
            /\ caught' = NoError
            /\ outcome' = "pending"
            /\ pc' = (IF currentPage >= maxPages THEN "export" ELSE "detect")]_vars

\* the checkpoint at 50 pages threw, the run went on, and the checkpoint at
\* 100 pages was written with the whole accumulator
C11_Witness ==
    /\ pagesProcessed = 100
    /\ calls.checkpoint = 2
    /\ calls.checkpointFailed = 1
    /\ \E c \in checkpoints : c.page = 100 /\ c.rows = allReviews /\ Len(c.rows) = 1
    /\ outcome = "pending"

\* the index of the last "." of a filename, 0 when it has none
LastDot(f) ==
    IF \E i \in 1..Len(f) : f[i] = "."
    THEN CHOOSE i \in 1..Len(f) : f[i] = "." /\ \A j \in (i + 1)..Len(f) : f[j] # "."
    ELSE 0

\* a filename with its extension stripped
StripExtension(f) == IF LastDot(f) > 1 THEN SubSeq(f, 1, LastDot(f) - 1) ELSE f

\* C12: for every accepted output filename the checkpoint at page count N
\* is named <base>_checkpoint_page<N>.csv, base being the filename without
\* its extension, and that name is not the primary output filename.
C12_CheckpointNameIsDerived ==
    checkpointPage > 0 =>
        /\ checkpointName = StripExtension(outputFilename) \o CheckpointInfix
                                \o DecimalString(checkpointPage) \o CsvExtension
        /\ checkpointName # outputFilename

(***************************************************************************)
(* retryWithBackoff.                                                       *)
(***************************************************************************)
Last(q) == q[Len(q)]

Retrying == retry.pc # "idle"

Unhinted(i) == extractRetryAfter(retry.thrown[i]).null

\* C14 as stated: the sleep after an un-hinted failure at attempt index a
\* is min(baseDelay * 2^a, maxDelay), and no sleep exceeds maxDelay.
C14_NoSleepExceedsMaxDelay ==
    Retrying =>
        \A i \in 1..Len(retry.sleeps) :
            /\ Unhinted(i) =>
                    retry.sleeps[i].ms =
                        Min(retry.config.baseDelay * Pow2(i - 1), retry.config.maxDelay)
            /\ retry.sleeps[i].ms <= retry.config.maxDelay

\* C14 amended: the sleep after an un-hinted failure at attempt index a
\* (a < maxRetries) is exactly min(baseDelay * 2^a, maxDelay), so no
\* un-hinted sleep exceeds maxDelay; the sleep after a hinted failure is
\* the hinted number of seconds whatever maxDelay is, and may exceed it.
C14_UnhintedSleepIsCappedExponential ==
    Retrying =>
        /\ Len(retry.sleeps) = Min(Len(retry.thrown), retry.config.maxRetries)
        /\ \A i \in 1..Len(retry.sleeps) :
            /\ retry.sleeps[i].attempt = i - 1
            /\ Unhinted(i) =>
                    /\ retry.sleeps[i].ms =
                            Min(retry.config.baseDelay * Pow2(i - 1),
                                retry.config.maxDelay)
                    /\ retry.sleeps[i].ms <= retry.config.maxDelay
            /\ ~Unhinted(i) =>
                    retry.sleeps[i].ms =
                        extractRetryAfter(retry.thrown[i]).seconds * 1000

\* maxDelay 3000: a hinted sleep of 60 s, then un-hinted sleeps of 2000 ms
\* at attempt 1 and of 3000 ms, the cap, at attempt 2
C14_Witness ==
    /\ Retrying
    /\ retry.config.maxDelay = LowMaxDelay
    /\ retry.thrown = <<Message429, TimeoutError, TimeoutError>>
    /\ Len(retry.sleeps) = 3
    /\ retry.sleeps[1].ms = 60000
    /\ retry.sleeps[2].ms = 2000
    /\ retry.sleeps[3].ms = 3000

RECURSIVE SumOfSleeps(_)
SumOfSleeps(q) == IF q = <<>> THEN 0 ELSE Head(q).ms + SumOfSleeps(Tail(q))

\* the default configuration and failures that are all plain timeouts
DefaultRun(n) ==
    /\ Retrying
    /\ retry.config = DefaultRetryConfig
    /\ retry.thrown = [i \in 1..n |-> TimeoutError]

\* C15 as stated: under {3, 1000, 8000} three transient failures followed
\* by a success give a total backoff sleep of 1000 + 2000 ms; a fourth
\* consecutive failure is re-raised.
C15_ThreeFailuresSleepThreeSeconds ==
    /\ DefaultRun(3) /\ retry.outcome = "resolved" =>
            SumOfSleeps(retry.sleeps) = 1000 + 2000
    /\ DefaultRun(4) => retry.outcome = "rejected" /\ retry.value = TimeoutError

\* C15 amended: under {3, 1000, 8000} an operation that fails three
\* consecutive times with un-hinted transient failures and then succeeds
\* makes retryWithBackoff succeed on the 3rd retry (the 4th invocation)
\* after backoff sleeps of 1000, 2000 and 4000 ms, 7000 ms in total; the
\* call does not give up before the 4th failure, and a 4th consecutive
\* failure is re-raised.
C15_ThreeFailuresSleepSevenSeconds ==
    /\ DefaultRun(3) =>
            /\ retry.outcome # "rejected"
            /\ retry.sleeps = <<[ms |-> 1000, hinted |-> FALSE, attempt |-> 0],
                                [ms |-> 2000, hinted |-> FALSE, attempt |-> 1],
                                [ms |-> 4000, hinted |-> FALSE, attempt |-> 2]>>
            /\ SumOfSleeps(retry.sleeps) = 7000
            /\ retry.outcome = "resolved" => retry.invocations = 4
    /\ \A n \in 0..2 : DefaultRun(n) => retry.outcome # "rejected"
    /\ DefaultRun(4) =>
            /\ retry.outcome = "rejected"
            /\ retry.value = TimeoutError
            /\ retry.invocations = 4

\* three timeouts, then the fourth invocation succeeded
C15_Witness ==
    /\ DefaultRun(3)
    /\ retry.outcome = "resolved"
    /\ retry.invocations = 4

\* how many of the first n failures carried no hint
RECURSIVE UnhintedBefore(_)
UnhintedBefore(n) ==
    IF n = 0 THEN 0
    ELSE UnhintedBefore(n - 1) + (IF Unhinted(n) THEN 1 ELSE 0)

\* C16: a failure with a retry-after hint of h seconds is followed by a
\* sleep of exactly h seconds, and hinted failures do not consume
\* exponential growth: the delay after an un-hinted failure is the one it
\* would be had the hinted failures before it not occurred.
C16_HintDoesNotConsumeGrowth ==
    Retrying =>
        \A i \in 1..Len(retry.sleeps) :
            /\ ~Unhinted(i) =>
                    retry.sleeps[i].ms =
                        extractRetryAfter(retry.thrown[i]).seconds * 1000
            /\ Unhinted(i) =>
                    retry.sleeps[i].ms =
                        Min(retry.config.baseDelay * Pow2(UnhintedBefore(i - 1)),
                            retry.config.maxDelay)

(***************************************************************************)
(* RateLimiter.delay.                                                      *)
(***************************************************************************)
\* the time between the previous completion and the last call
ElapsedAtCall ==
    IF caller.pc = "ready"
    THEN caller.calledAt - caller.previousCompletedAt
    ELSE caller.calledAt - caller.completedAt

\* the last call had a completed call before it
HadPrevious ==
    \/ caller.pc = "ready" /\ caller.completions >= 2
    \/ caller.pc = "sleeping" /\ caller.completions >= 1

\* C17: with sequential callers of one RateLimiter, two consecutive
\* completions of delay(m) are at least m ms apart; a call made when m ms
\* or more have passed since the previous completion returns without
\* sleeping, and otherwise it sleeps exactly m - elapsed, which is more
\* than zero and at most m.
C17_DelaySpacesCompletions ==
    caller.pc # "idle" =>
        /\ caller.slept >= 0
        /\ caller.slept <= caller.ms
        /\ caller.pc = "ready" /\ caller.completions >= 2 =>
                caller.completedAt - caller.previousCompletedAt >= caller.ms
        /\ caller.pc = "ready" /\ caller.completions = 1 => caller.slept = 0
        /\ HadPrevious =>
                /\ ElapsedAtCall >= 0
                /\ IF ElapsedAtCall >= caller.ms
                   THEN caller.slept = 0 /\ caller.pc = "ready"
                                         /\ caller.completedAt = caller.calledAt
                   ELSE caller.slept = caller.ms - ElapsedAtCall

\* delay(2000) called 1000 ms after the previous completion slept the
\* remaining 1000 ms and returned
C17_Witness ==
    /\ caller.pc = "ready"
    /\ caller.completions >= 2
    /\ caller.ms = 2000
    /\ caller.calledAt - caller.previousCompletedAt = 1000
    /\ caller.slept = 1000
    /\ caller.completedAt - caller.previousCompletedAt = 2000

(***************************************************************************)
(* Pacing of page requests in scrape().                                    *)
(***************************************************************************)
\* a step in which clickNextPage clicked through to the next page
ClickStep == pc = "click" /\ lastClick'.success /\ currentPage' = currentPage + 1

\* C18: every next-page click happens at least config.delayMs after the
\* previous page request, which is the initial navigateToURL for the first
\* click and the previous click for the later ones.
C18_ClicksAreSpacedByDelay ==
    [][ClickStep => now - requestedAt >= delayMs]_vars

(***************************************************************************)
(* ErrorHandler.                                                           *)
(***************************************************************************)
\* C19: first match wins, in the order critical, recoverable: a message
\* that passes the critical test is CRITICAL with action TERMINATE also
\* when it passes the recoverable test; otherwise one that passes the
\* recoverable test is RECOVERABLE with action RETRY; every other message
\* is NON_CRITICAL with action CONTINUE; every error gets one of the three.
C19_CriticalBeforeRecoverable ==
    classified.pc = "done" =>
        LET msg == classified.error.msg
            fatal == isCriticalError(msg, classified.context)
            transient == isRecoverableError(msg)
        IN  /\ fatal =>
                classified.category = "critical" /\ classified.action = "terminate"
            /\ ~fatal /\ transient =>
                classified.category = "recoverable" /\ classified.action = "retry"
            /\ ~fatal /\ ~transient =>
                classified.category = "non-critical" /\ classified.action = "continue"
            /\ classified.category \in {"critical", "recoverable", "non-critical"}
            /\ classified.action \in {"terminate", "retry", "continue"}

\* 'Cloudflare challenge timed out': anti-bot phrases and a timeout phrase
\* in one message, classified CRITICAL
C19_Witness ==
    /\ classified.pc = "done"
    /\ classified.error.msg = {"cloudflare", "timed out"}
    /\ classified.category = "critical"
    /\ classified.action = "terminate"
    /\ classified.isCaptcha

(***************************************************************************)
(* main().                                                                 *)
(***************************************************************************)
\* C20: main exits with 0 whenever scrape() resolved, with or without
\* errors in the result; with 1 whenever an Error reached its catch, from
\* scrape() or from before it, whatever the classifier makes of it; with
\* 130 on SIGINT and with 143 on SIGTERM.
C20_ExitStatus ==
    main.pc = "exited" =>
        /\ main.cause \in {"return", "catch", "SIGINT", "SIGTERM"}
        /\ main.cause = "return" <=>
                pc = "done" /\ outcome = "resolved" /\ main.cause \notin {"SIGINT", "SIGTERM"}
        /\ main.cause = "return" => main.exitCode = 0
        /\ main.cause = "catch" =>
                /\ main.exitCode = 1
                /\ main.error # NoError
                /\ main.ready => main.error = raised /\ outcome = "rejected"
        /\ main.cause = "SIGINT" => main.exitCode = 130
        /\ main.cause = "SIGTERM" => main.exitCode = 143

\* scrape() resolved with an error in its result and main exited with 0
C20_Witness ==
    /\ main.pc = "exited"
    /\ main.cause = "return"
    /\ main.exitCode = 0
    /\ result.set
    /\ result.errors # <<>>

(***************************************************************************)
(* C21 as stated: of the errors main catches, the anti-bot message is      *)
(* logged exactly for those that pass isCaptcha.                           *)
(***************************************************************************)
C21_AntiBotMessageIffCaptcha ==
    main.pc = "exited" /\ main.cause = "catch"
        => (main.captchaMessage <=> isCaptchaError(main.error.msg))

(***************************************************************************)
(* C21 amended: of the errors main catches once logger and errorHandler    *)
(* exist, those that pass isCaptcha are handled with TERMINATE and get the *)
(* anti-bot message and no other error gets it; an error caught before     *)
(* that (argument parsing, validation, configuration) never gets it.       *)
(***************************************************************************)
C21_AntiBotMessageIffCaptchaOnceReady ==
    main.pc = "exited" /\ main.cause = "catch"
        => /\ main.ready /\ isCaptchaError(main.error.msg)
                => main.action = "terminate" /\ main.captchaMessage
           /\ main.ready /\ ~isCaptchaError(main.error.msg) => ~main.captchaMessage
           /\ ~main.ready => ~main.captchaMessage

C21_Witness ==
    /\ main.pc = "exited" /\ main.cause = "catch" /\ main.ready
    /\ isCaptchaError(main.error.msg)
    /\ main.captchaMessage

(***************************************************************************)
(* Properties of ContentExtractor.extractReviews.                          *)
(***************************************************************************)
Returned == extraction.pc = "returned"

Yields(answer) == ~answer.threw /\ Len(answer.elements) > 0

\* the first container selector that yields an element, 0 when none does
FirstYielding(page) ==
    IF \E i \in DOMAIN page : Yields(page[i])
    THEN CHOOSE i \in DOMAIN page :
            Yields(page[i]) /\ \A j \in 1..(i - 1) : ~Yields(page[j])
    ELSE 0

RequiredFields == {"rating", "text", "date", "reviewerName"}

Complete(element) == \A f \in RequiredFields : extractField(element, f, TRUE) # <<>>

(***************************************************************************)
(* C22: extractReviews extracts from the matches of the first container    *)
(* selector, in the listed order, that yields an element, a throwing       *)
(* selector counting as no match and no later selector deciding; when no   *)
(* selector yields an element it returns the empty array with a warning.   *)
(***************************************************************************)
C22_FirstYieldingSelectorWins ==
    Returned =>
        LET first == FirstYielding(extraction.page) IN
        IF first = 0
        THEN extraction.reviews = <<>> /\ extraction.warnedNoElements
        ELSE /\ extraction.selector = first
             /\ extraction.elements = extraction.page[first].elements
             /\ extraction.reviews =
                    extractReviews([i \in 1..Len(extraction.page[first].elements) |->
                                       extractFields(extraction.page[first].elements[i])])
             /\ ~extraction.warnedNoElements

C22_Witness ==
    /\ Returned
    /\ extraction.page[1].threw
    /\ extraction.selector = 3
    /\ Yields(extraction.page[4])
    /\ extraction.page[4].elements # extraction.page[3].elements
    /\ extraction.reviews # <<>>

(***************************************************************************)
(* C23: extractReviews returns, in container order, one record for each    *)
(* container in which rating, text, date and reviewerName are all found    *)
(* non-empty, holding the four texts found; every other container is       *)
(* skipped with a warning; a container lacking only title or verified is   *)
(* not skipped.                                                            *)
(***************************************************************************)
C23_OneRecordPerCompleteContainer ==
    Returned =>
        LET kept == SelectSeq(extraction.elements, Complete) IN
        /\ Len(extraction.reviews) = Len(kept)
        /\ \A j \in 1..Len(kept) :
              \A f \in RequiredFields :
                  extraction.reviews[j][f] = extractField(kept[j], f, TRUE)
        /\ extraction.warnedFailed = Len(extraction.elements) - Len(kept)

C23_Witness ==
    /\ Returned
    /\ Len(extraction.elements) = 2
    /\ ~Complete(extraction.elements[1])
    /\ Complete(extraction.elements[2])
    /\ extractField(extraction.elements[2], "title", FALSE) = <<>>
    /\ extractField(extraction.elements[2], "verified", FALSE) = <<>>
    /\ Len(extraction.reviews) = 1
    /\ extraction.reviews[1].rating = extractField(extraction.elements[2], "rating", TRUE)

\* the containers in which no text selector yields text
TextUnmarked(i) == trySelectors(extraction.elements[i].text) = <<>>

\* the texts longer than the threshold among the paragraphs of an element
\* and the lines of its text
TextBlocks(element) ==
    LET paragraphs == IF element.paragraphs.threw THEN <<>> ELSE element.paragraphs.texts
        lines == split(Trim(element.textContent))
    IN  {t \in {Trim(paragraphs[i]) : i \in DOMAIN paragraphs}
                  \cup {Trim(lines[i]) : i \in DOMAIN lines} : Len(t) > MinTextLength}

(***************************************************************************)
(* C24 as stated: when no text selector yields text, the text found is a   *)
(* longest of the text blocks of more than 20 characters in the container, *)
(* and the field is missing only when there is no such block.              *)
(***************************************************************************)
C24_FallbackIsLongestBlock ==
    Returned =>
        \A i \in DOMAIN extraction.elements :
            TextUnmarked(i) =>
                LET blocks == TextBlocks(extraction.elements[i])
                    text == extraction.fields[i].text
                IN  IF blocks = {} THEN text = <<>>
                    ELSE text \in blocks /\ \A b \in blocks : Len(b) <= Len(text)

\* the paragraphs of an element longer than the threshold, in order
SubstantialParagraphs(element) ==
    SelectSeq([i \in DOMAIN element.paragraphs.texts |-> Trim(element.paragraphs.texts[i])],
              LAMBDA t : Len(t) > MinTextLength)

\* the lines of an element's text longer than the threshold, in order
SubstantialLines(element) ==
    LET lines == split(Trim(element.textContent))
    IN  SelectSeq([i \in DOMAIN lines |-> Trim(lines[i])],
                  LAMBDA t : Len(t) > MinTextLength)

(***************************************************************************)
(* C24 amended: when no text selector yields text, the text found is the   *)
(* first paragraph of more than 20 characters; when there is no such       *)
(* paragraph it is the longest line of more than 20 characters of the      *)
(* container's text, the last of the longest ones; the field is missing    *)
(* when there is neither, or when the paragraph query throws.              *)
(***************************************************************************)
C24_FallbackIsFirstParagraphThenLongestLine ==
    Returned =>
        \A i \in DOMAIN extraction.elements :
            TextUnmarked(i) =>
                LET element == extraction.elements[i]
                    text == extraction.fields[i].text
                    paragraphs == SubstantialParagraphs(element)
                    lines == SubstantialLines(element)
                IN  IF element.paragraphs.threw THEN text = <<>>
                    ELSE IF paragraphs # <<>> THEN text = paragraphs[1]
                    ELSE IF lines # <<>>
                         THEN \E k \in DOMAIN lines :
                                /\ text = lines[k]
                                /\ \A m \in DOMAIN lines : Len(lines[m]) <= Len(text)
                                /\ \A m \in (k + 1)..Len(lines) : Len(lines[m]) < Len(text)
                         ELSE text = <<>>

C24_Witness ==
    /\ Returned
    /\ Len(extraction.elements) = 2
    /\ TextUnmarked(1) /\ TextUnmarked(2)
    /\ Len(SubstantialParagraphs(extraction.elements[1])) = 2
    /\ extraction.fields[1].text = Repeat("p", 21)
    /\ SubstantialParagraphs(extraction.elements[2]) = <<>>
    /\ extraction.fields[2].text = Repeat("z", 30)
    /\ Len(extraction.reviews) = 2

(***************************************************************************)
(* Properties of PageNavigator.                                            *)
(***************************************************************************)
ClickReturned == navigation.pc = "returned" /\ navigation.method = "clickNextPage"

ClickThrew(k) == navigation.attempts[k].threw # ""

(***************************************************************************)
(* C25: a call of clickNextPage makes at most 3 click attempts, each retry *)
(* after a new dismissal of overlays; it returns success=true exactly when *)
(* a click attempt succeeded, and otherwise (no usable control, a throw    *)
(* while locating, or three throwing attempts) success=false with          *)
(* hasNextPage=false and a non-empty error.                                *)
(***************************************************************************)
C25_ClickNextPageFailsClosed ==
    navigation.method = "clickNextPage" =>
    /\ Len(navigation.attempts) <= 3
    /\ \A k \in 2..Len(navigation.attempts) : navigation.attempts[k].dismissed
    /\ navigation.attempts # <<>> => navigation.dismissals = Len(navigation.attempts)
    /\ ClickReturned =>
         /\ navigation.result.success
               <=> /\ navigation.attempts # <<>>
                   /\ ~ClickThrew(Len(navigation.attempts))
         /\ ~navigation.result.success
               => ~navigation.result.hasNextPage /\ navigation.result.error # ""
         /\ navigation.attempts = <<>> => ~navigation.result.success
         /\ (Len(navigation.attempts) = 3 /\ \A k \in 1..3 : ClickThrew(k))
               => /\ ~navigation.result.success
                  /\ navigation.result.error = navigation.attempts[3].threw

C25_Witness ==
    /\ ClickReturned
    /\ Len(navigation.attempts) = 3
    /\ \A k \in 1..3 : ClickThrew(k)
    /\ navigation.dismissals = 3
    /\ ~navigation.result.success /\ navigation.result.error # ""

(***************************************************************************)
(* C26: navigateToURL returns true iff page.goto gave a response with a    *)
(* status below 400, and false for no response, a status of 400 or more,   *)
(* and a throw.                                                            *)
(***************************************************************************)
C26_NavigateToURLTrueIffBelow400 ==
    navigation.pc = "returned" /\ navigation.method = "navigateToURL"
        => /\ navigation.returned
                <=> navigation.goto.kind = "response" /\ navigation.goto.status < 400
           /\ navigation.goto.kind \in {"null", "throws"} => ~navigation.returned

C26_Witness ==
    /\ navigation.pc = "returned" /\ navigation.method = "navigateToURL"
    /\ navigation.goto = [kind |-> "response", status |-> 400]
    /\ ~navigation.returned

(***************************************************************************)
(* Properties of DataTransformer.                                          *)
(***************************************************************************)
TransformerReturned(method) ==
    transformed.pc = "returned" /\ transformed.method = method

HasDigit(s) == \E i \in DOMAIN s : IsDigit(s[i])

\* the first numeric token of s: it starts at the first digit, takes the
\* digits that follow, and a point with the digits after it if there are any
TokenStart(s) == CHOOSE i \in DOMAIN s : IsDigit(s[i]) /\ \A j \in 1..(i - 1) : ~IsDigit(s[j])

DigitsFrom(s, i) ==
    CHOOSE j \in i..Len(s) :
        /\ \A k \in i..j : IsDigit(s[k])
        /\ j = Len(s) \/ ~IsDigit(s[j + 1])

\* the value of the first numeric token of s, in units of 1/RatingScale
TokenValue(s) ==
    LET i == TokenStart(s)
        j == DigitsFrom(s, i)
        whole == DigitsValue(s, i, j) * RatingScale
    IN  IF j + 2 <= Len(s) /\ s[j + 1] = "." /\ IsDigit(s[j + 2])
        THEN LET k == DigitsFrom(s, j + 2)
             IN  whole + DigitsValue(s, j + 2, k) * Pow10(FractionDigits - (k - j - 1))
        ELSE whole

(***************************************************************************)
(* C27: parseRating returns 0 for a string with no number and for a string *)
(* whose number (its first numeric token, an integer or a decimal) is      *)
(* below 1 or above 5, and returns the value of that number, decimals      *)
(* included and not rounded, when it is within [1,5].                      *)
(***************************************************************************)
C27_ParseRatingInRangeOrZero ==
    TransformerReturned("parseRating") =>
        LET s == transformed.input IN
        IF ~HasDigit(s) THEN transformed.output = 0
        ELSE IF TokenValue(s) < 1 * RatingScale \/ TokenValue(s) > 5 * RatingScale
             THEN transformed.output = 0
             ELSE transformed.output = TokenValue(s)

C27_Witness ==
    /\ TransformerReturned("parseRating")
    /\ transformed.input = <<SP, "1", ".", "5">>
    /\ transformed.output = RatingScale + RatingScale \div 2

(***************************************************************************)
(* C28: the output of sanitizeText neither starts nor ends with            *)
(* whitespace, holds no CR, and holds no three LF in a row.                *)
(***************************************************************************)
C28_SanitizedTextIsClean ==
    TransformerReturned("sanitizeText") =>
        LET out == transformed.output IN
        /\ out # <<>> => ~IsWhitespace(out[1]) /\ ~IsWhitespace(out[Len(out)])
        /\ \A i \in DOMAIN out : out[i] # CR
        /\ \A i \in 1..(Len(out) - 2) : ~(out[i] = LF /\ out[i + 1] = LF /\ out[i + 2] = LF)

C28_Witness ==
    /\ TransformerReturned("sanitizeText")
    /\ transformed.input = <<"a", CR, LF, CR, "a">>
    /\ transformed.output = <<"a", LF, LF, "a">>

(***************************************************************************)
(* C29: normalizeDate returns every string of the form YYYY-MM-DD          *)
(* unchanged.                                                              *)
(***************************************************************************)
C29_CanonicalDateUnchanged ==
    TransformerReturned("normalizeDate") /\ IsIsoDate(transformed.input)
        => transformed.output = transformed.input

C29_Witness ==
    /\ TransformerReturned("normalizeDate")
    /\ transformed.input = <<"2", "0", "2", "4", "-", "0", "1", "-", "1", "5">>
    /\ isValid(parse(transformed.input))
    /\ transformed.output = transformed.input

(***************************************************************************)
(* Properties of BrowserController.                                        *)
(***************************************************************************)
\* no call is pending
ControllerReady == controller.pc = "ready"

InitializedBefore(call) == call.browserBefore # 0 /\ call.contextBefore # 0

(***************************************************************************)
(* C30: between calls that all succeed, isInitialized() is true iff a      *)
(* browser was launched since the last close(), and getBrowser() and       *)
(* getContext() are non-null exactly then; initialize() on an initialized  *)
(* controller returns the browser it has and launches none; close() on a   *)
(* controller that is not initialized changes nothing; initialize() on a   *)
(* controller that is not initialized launches a browser never used        *)
(* before and returns it.                                                  *)
(***************************************************************************)
C30_ControllerLifecycle ==
    ControllerReady =>
        LET c == controller
            call == c.call
        IN  /\ ControllerIsInitialized(c) <=> c.launchedSinceClose
            /\ c.browser # 0 <=> ControllerIsInitialized(c)
            /\ c.context # 0 <=> ControllerIsInitialized(c)
            /\ call.method = "initialize" /\ InitializedBefore(call)
                  => /\ call.returned = call.browserBefore
                     /\ c.browser = call.browserBefore
                     /\ c.launched = call.launchedBefore
            /\ call.method = "close" /\ ~InitializedBefore(call)
                  => /\ c.browser = call.browserBefore /\ c.context = call.contextBefore
                     /\ c.launched = call.launchedBefore /\ c.closed = call.closedBefore
            /\ call.method = "initialize" /\ ~InitializedBefore(call)
                  => /\ c.launched = call.launchedBefore + 1
                     /\ call.returned = c.browser
                     /\ c.browser \notin call.closedBefore
                     /\ c.browser # call.browserBefore
                     /\ ControllerIsInitialized(c)

C30_Witness ==
    /\ ControllerReady
    /\ controller.call.method = "initialize"
    /\ controller.call.closedBefore = {1}
    /\ ~InitializedBefore(controller.call)
    /\ controller.browser = 2
    /\ ControllerIsInitialized(controller)

(***************************************************************************)
(* Pagination state of scrape().                                           *)
(***************************************************************************)
\* the run is inside an iteration of the main loop
InIteration == pc \in {"page", "detect", "delay", "click"}

\* a step that takes the run from inside an iteration back to the loop head
BackToLoopHead == InIteration /\ pc' = "loop"

\* a step that takes the run from inside an iteration out of the loop
BreakStep == InIteration /\ pc' = "export"

\* currentPage starts at 1, never decreases, and grows by exactly 1 and only
\* in a step in which clickNextPage returned success
ForwardOnly ==
    /\ [](currentPage >= 1)
    /\ [][/\ currentPage' >= currentPage
          /\ currentPage' # currentPage =>
                /\ currentPage' = currentPage + 1
                /\ pc = "click"
                /\ lastClick'.made /\ lastClick'.success]_vars
    /\ [][pc = "click" /\ lastClick'.success => currentPage' = currentPage + 1]_vars

(***************************************************************************)
(* C32 as stated: currentPage moves forward only, by 1 and after a         *)
(* successful clickNextPage; pagesProcessed = currentPage - 1 whenever the *)
(* run is at the head of the main loop; the loop runs at most maxPages     *)
(* iterations.                                                             *)
(***************************************************************************)
C32_CountsAgreeAtEveryLoopHead ==
    /\ ForwardOnly
    /\ [](pc = "loop" => pagesProcessed = currentPage - 1)
    /\ [](calls.iterations <= maxPages)

(***************************************************************************)
(* C32 amended: currentPage starts at 1, never decreases, and grows by     *)
(* exactly 1 and only after a clickNextPage that returned success; an      *)
(* iteration of the main loop that comes back to the loop head has either  *)
(* incremented currentPage or cleared hasNextPage, and any other iteration *)
(* leaves the loop by the break at the page cap; pagesProcessed =          *)
(* currentPage - 1 at every loop head from which an iteration starts,      *)
(* while at the loop head that ends the loop pagesProcessed is             *)
(* currentPage - 1 or currentPage (the last page was counted and no click  *)
(* followed, or the click failed); iteration n runs with currentPage = n,  *)
(* so that the loop makes at most maxPages iterations.                     *)
(***************************************************************************)
C32_ForwardOnlyWithProgress ==
    /\ ForwardOnly
    /\ [][BackToLoopHead => currentPage' = currentPage + 1 \/ ~hasNextPage']_vars
    /\ [][InIteration => InIteration' \/ BackToLoopHead \/ BreakStep]_vars
    /\ [](/\ pc = "loop" /\ hasNextPage /\ currentPage <= maxPages
                => pagesProcessed = currentPage - 1
          /\ pc = "page" => pagesProcessed = currentPage - 1
          /\ pc = "loop" => pagesProcessed \in {currentPage - 1, currentPage}
          /\ InIteration => calls.iterations = currentPage /\ currentPage <= maxPages
          /\ calls.iterations <= maxPages)

\* the cap of two pages: two iterations were made, the second after a
\* successful click, and the loop ended at the cap
C32_Witness ==
    /\ pc = "export"
    /\ maxPages = 2
    /\ calls.iterations = 2
    /\ currentPage = 2
    /\ pagesProcessed = 2
    /\ lastClick.made /\ lastClick.success

(***************************************************************************)
(* The browser of scrape().                                                *)
(***************************************************************************)
\* C33: whenever scrape() has settled and its finally block has run, every
\* browser launched during the call has been closed, also when initialize()
\* failed after chromium.launch and before the context was created.
C33_SettledMeansBrowserClosed ==
    pc = "done" => ~browser

(***************************************************************************)
(* The dedup key.                                                          *)
(***************************************************************************)
\* record i of the page has a field tuple (text, reviewerName, date) that no
\* record kept earlier in the run and no earlier record of the page has
NewIdentity(t, i) ==
    /\ \A r \in Range(allReviews) : ~SameIdentity(r, t[i])
    /\ \A j \in 1..(i - 1) : ~SameIdentity(t[j], t[i])

\* C34: records are treated as duplicates only if text, reviewerName and date
\* are all equal: the dedup key is injective on the three fields, fields
\* holding '|' included, so a record whose field tuple differs from every
\* earlier one is never dropped as a duplicate.
C34_KeyIsInjective ==
    [][PageProcessedStep =>
          \A i \in 1..Len(Presented) :
              NewIdentity(Presented, i) => Presented[i] \in Range(Appended)]_vars

(***************************************************************************)
(* The identity set.                                                       *)
(***************************************************************************)
\* the indices of the records of page t that the identity set alone lets
\* through: the key is not in the set and no earlier record of the page has it
NewKeys(t) ==
    {i \in 1..Len(t) :
        /\ reviewKey(t[i]) \notin seenReviews
        /\ \A j \in 1..(i - 1) : reviewKey(t[j]) # reviewKey(t[i])}

\* the records of t at the indices in S, in the order of t
RECURSIVE Pick(_, _, _)
Pick(t, S, i) ==
    IF i > Len(t) THEN <<>>
    ELSE (IF i \in S THEN <<t[i]>> ELSE <<>>) \o Pick(t, S, i + 1)

\* C35: within a run of scrape() the identity set only grows and no key is
\* ever removed; what a page adds to the accumulator is decided by the keys
\* in the set and nothing else, every key met is in the set afterwards; at
\* the start of every loop iteration the set has as many keys as the
\* accumulator has records.
C35_IdentitySetOnlyGrows ==
    /\ [][seenReviews \subseteq seenReviews']_vars
    /\ [][seenReviews' # seenReviews => PageProcessedStep]_vars
    /\ [][PageProcessedStep =>
            /\ Appended = Pick(Presented, NewKeys(Presented), 1)
            /\ seenReviews' = seenReviews \cup {reviewKey(r) : r \in Range(Presented)}]_vars
    /\ [](pc \in {"loop", "page"} => Cardinality(seenReviews) = Len(allReviews))

\* a second iteration starts with two keys in the set and two records in the
\* accumulator, both from the first page
C35_Witness ==
    /\ pc = "page"
    /\ pagesProcessed = 1
    /\ calls.iterations = 2
    /\ Cardinality(seenReviews) = 2
    /\ Len(allReviews) = 2

(***************************************************************************)
(* Checkpoints and the primary output.                                     *)
(***************************************************************************)
IsPrefix(p, q) == Len(p) <= Len(q) /\ SubSeq(q, 1, Len(p)) = p

\* C36: the accumulator is append-only; a checkpoint export that succeeds
\* writes exactly the accumulator of that moment; what any checkpoint file
\* holds is a prefix of the accumulator ever after and so of the records
\* written to the primary output when the run ends with an export; a later
\* checkpoint extends an earlier one.
C36_CheckpointsArePrefixes ==
    /\ [][IsPrefix(allReviews, allReviews')]_vars
    /\ [][CheckpointStep /\ ~CheckpointFailedStep =>
            IF checkpointFilename(outputFilename, pagesProcessed') = outputFilename
            THEN primaryFile' = FileOf(allReviews')
            ELSE \E c \in checkpoints' \ checkpoints :
                    /\ c.page = pagesProcessed'
                    /\ c.rows = allReviews']_vars
    /\ [](/\ \A c \in checkpoints : IsPrefix(c.rows, allReviews)
          /\ primaryFile.exists => IsPrefix(primaryFile.rows, allReviews)
          /\ \A c, d \in checkpoints : c.page <= d.page => IsPrefix(c.rows, d.rows)
          /\ pc = "done" /\ outcome = "resolved" =>
                /\ primaryFile = FileOf(allReviews)
                /\ \A c \in checkpoints : IsPrefix(c.rows, primaryFile.rows))

\* the checkpoint at 50 pages holds one record, the checkpoint at 100 pages
\* holds that record and another, and the primary output of the finished run
\* holds the two
C36_Witness ==
    /\ pc = "done"
    /\ outcome = "resolved"
    /\ Len(primaryFile.rows) = 2
    /\ \E c, d \in checkpoints :
          /\ c.page = 50 /\ Len(c.rows) = 1
          /\ d.page = 100 /\ d.rows = primaryFile.rows

\* the input of the call is an ISO 8601 date-time
IsoDateTimeInput ==
    /\ IsIsoDateTime(transformed.input)
    /\ newDate(transformed.input).valid

\* C39: for an ISO 8601 date-time input normalizeDate returns the first 10
\* characters of the input, whatever the time of day in the string and
\* whatever the time zone of the process.
C39_DateTimeTruncatedToDate ==
    TransformerReturned("normalizeDate") /\ IsoDateTimeInput
        => transformed.output = SubSeq(transformed.input, 1, 10)

(***************************************************************************)
(* RateLimiter.delay with overlapping callers.                             *)
(***************************************************************************)
\* C37: also when a delay(m) call starts before an earlier call on the same
\* RateLimiter has completed, the completions of the two calls are at least
\* m ms apart.
C37_OverlappingCallsAreSpaced ==
    callers # Idle =>
        (/\ callers.latest.hadPrevious
         /\ callers.latest.overlapped
         /\ callers.latest.sameDelay
            => callers.latest.gap >= callers.latest.ms)

(***************************************************************************)
(* Suspension of scrape().                                                 *)
(***************************************************************************)
\* scrape() has settled and its finally block has run
Settled == pc = "done" /\ outcome # "pending"

OutstandingOf(a) == {o \in navigation.outstanding : o.attempt = a}

\* click attempt a is the one clickNextPage is awaiting
Awaited(a) == navigation.pc = "awaiting" /\ navigation.attempt = a

====
